---- MODULE Spec2Model ----
(***************************************************************************)
(* A model of nrps-rs: the ranked prediction store (predictions.rs), the   *)
(* Stachelhaus reference matcher (stachelhaus.rs) and the SVM predictor    *)
(* loop (predictors/mod.rs, svm/).                                         *)
(*                                                                         *)
(* Strings are sequences of one-character strings.  A floating point      *)
(* score is an exact fraction [num, den] with den >= 0; den = 0 with       *)
(* num > 0 is +infinity, as IEEE division gives.  Fractions are compared   *)
(* by cross multiplication, which is what partial_cmp decides for the      *)
(* quotients the program computes.                                         *)
(***************************************************************************)
EXTENDS Integers, Sequences, FiniteSets, TLC

VARIABLES
    domains,            \* Vec<ADomain>: the query records and their result stores
    call,               \* the last call: operation, arguments, result
    signatures,         \* Vec<StachelhausSignature>: the reference collection
    models,             \* Predictor.models
    pc,                 \* position of the running operation
    dom_idx,            \* index of the domain a loop is at
    sig_idx,            \* index of the next reference entry of the scan
    model_idx,          \* index of the model Predictor::predict is at
    max_aa10_matches,   \* predict's local best primary match count
    max_aa34_matches,   \* predict's local best secondary match count
    l_predictions,      \* predict's local PredictionList
    l_stach_predictions,\* predict's local StachPredictionList
    aa10_in,            \* argument of the last extract_aa10 call
    aa10_out,           \* result of the last extract_aa10 call
    config,             \* the Config
    history,            \* the setter calls made on the Config, oldest first
    runs                \* how many times predict has been called again

vars == <<domains, call, signatures, models, pc, dom_idx, sig_idx, model_idx,
          max_aa10_matches, max_aa34_matches, l_predictions,
          l_stach_predictions, aa10_in, aa10_out, config, history, runs>>

----------------------------------------------------------------------------
\* Bounds of the exploration.

MaxAdds == 4
MaxCount == 3
MaxSigs == 3
MaxModels == 2
MaxSigLen == 36

----------------------------------------------------------------------------
\* f64 values as fractions.

Frac(n, d) == [num |-> n, den |-> d]

FLt(a, b) == a.num * b.den < b.num * a.den

FLe(a, b) == a.num * b.den <= b.num * a.den

FEq(a, b) == a.num * b.den = b.num * a.den

Min(a, b) == IF a < b THEN a ELSE b

----------------------------------------------------------------------------
\* predictions.rs: PredictionCategory, Prediction, PredictionList.

PredictionCategory ==
    {"ThreeCluster", "LargeCluster", "SmallCluster", "Single", "Stachelhaus",
     "LegacyThreeCluster", "LegacyThreeClusterFungal", "LegacyLargeCluster",
     "LegacySmallCluster", "LegacySingle"}

Prediction(name, score) == [name |-> name, score |-> score]

\* The position a stable descending sort gives p among the already sorted s:
\* before the first entry whose score is strictly lower.
RECURSIVE InsertByScore(_, _)
InsertByScore(s, p) ==
    IF s = <<>> THEN <<p>>
    ELSE IF FLt(s[1].score, p.score) THEN <<p>> \o s
    ELSE <<s[1]>> \o InsertByScore(Tail(s), p)

\* sort_by(|a, b| b.score.partial_cmp(&a.score).unwrap()): a stable sort,
\* descending by score.
RECURSIVE SortByScoreDesc(_)
SortByScoreDesc(s) ==
    IF s = <<>> THEN <<>>
    ELSE InsertByScore(SortByScoreDesc(SubSeq(s, 1, Len(s) - 1)), s[Len(s)])

PredictionList_new == <<>>

\* Mutants of add: one that does not re-sort, one that drops a candidate whose
\* name is already listed.
AddWithoutSort(list, prediction) == Append(list, prediction)

AddDedupByName(list, prediction) ==
    IF \E i \in 1..Len(list) : list[i].name = prediction.name
    THEN list
    ELSE SortByScoreDesc(Append(list, prediction))

PredictionList_add(list, prediction) ==
    SortByScoreDesc(Append(list, prediction))

Returned(v) == [panic |-> FALSE, value |-> v]

Panicked == [panic |-> TRUE, value |-> <<>>]

\* The loop of get_best_n over self.predictions[slice_end..]: acc is the
\* vector built so far.  predictions[count - 1] panics when count is 0
\* (usize underflow in a debug build, index out of bounds after wrapping in
\* a release build) and when the index is past the end of acc.
RECURSIVE BestLoop(_, _, _)
BestLoop(rest, acc, count) ==
    IF rest = <<>> THEN Returned(acc)
    ELSE IF count = 0 \/ count > Len(acc) THEN Panicked
    ELSE IF FLt(rest[1].score, acc[count].score) THEN Returned(acc)
    ELSE BestLoop(Tail(rest), Append(acc, rest[1]), count)

\* Mutant of get_best_n: the top count entries without the ties at the cutoff.
GetBestWithoutTies(list, count) ==
    Returned(SubSeq(list, 1, Min(count, Len(list))))

PredictionList_get_best_n(list, count) ==
    LET slice_end == Min(count, Len(list))
    IN  IF Len(list) = 0 THEN Returned(<<>>)
        ELSE BestLoop(SubSeq(list, slice_end + 1, Len(list)),
                      SubSeq(list, 1, slice_end), count)

\* Mutant of get_best: every entry instead of the best ones.
GetBestEverything(list) == Returned(list)

PredictionList_get_best(list) == PredictionList_get_best_n(list, 1)

----------------------------------------------------------------------------
\* predictions.rs: StachPrediction, StachPredictionList.

StachPrediction(name, aa10_score, aa10_sig, aa34_score, aa34_sig) ==
    [name |-> name, aa10_score |-> aa10_score, aa10_sig |-> aa10_sig,
     aa34_score |-> aa34_score, aa34_sig |-> aa34_sig]

\* impl PartialOrd for StachPrediction: aa10_ord.then(aa34_ord) is Less.
StachLess(a, b) ==
    \/ FLt(a.aa10_score, b.aa10_score)
    \/ FEq(a.aa10_score, b.aa10_score) /\ FLt(a.aa34_score, b.aa34_score)

\* The position a stable ascending sort gives p among the already sorted s:
\* before the first entry strictly greater than p.
RECURSIVE InsertStachAsc(_, _)
InsertStachAsc(s, p) ==
    IF s = <<>> THEN <<p>>
    ELSE IF StachLess(p, s[1]) THEN <<p>> \o s
    ELSE <<s[1]>> \o InsertStachAsc(Tail(s), p)

RECURSIVE SortStachAsc(_)
SortStachAsc(s) ==
    IF s = <<>> THEN <<>>
    ELSE InsertStachAsc(SortStachAsc(SubSeq(s, 1, Len(s) - 1)), s[Len(s)])

Reverse(s) == [i \in 1..Len(s) |-> s[Len(s) + 1 - i]]

StachPredictionList_new == <<>>

StachPredictionList_add(list, prediction) ==
    Reverse(SortStachAsc(Append(list, prediction)))

RECURSIVE StachBestLoop(_, _, _)
StachBestLoop(rest, acc, count) ==
    IF rest = <<>> THEN Returned(acc)
    ELSE IF count = 0 \/ count > Len(acc) THEN Panicked
    ELSE IF FLt(rest[1].aa10_score, acc[count].aa10_score) THEN Returned(acc)
    ELSE StachBestLoop(Tail(rest), Append(acc, rest[1]), count)

StachPredictionList_get_best_n(list, count) ==
    LET slice_end == Min(count, Len(list))
    IN  IF Len(list) = 0 THEN Returned(<<>>)
        ELSE StachBestLoop(SubSeq(list, slice_end + 1, Len(list)),
                           SubSeq(list, 1, slice_end), count)

----------------------------------------------------------------------------
\* predictions.rs: ADomain.  The HashMap is a function whose domain is the
\* set of categories that have a list.

ADomain_new(name, aa34) ==
    [name |-> name, aa34 |-> aa34,
     predictions |-> [c \in {} |-> <<>>],
     stach_predictions |-> StachPredictionList_new]

ADomain_add(d, category, prediction) ==
    IF category \in DOMAIN d.predictions
    THEN [d EXCEPT !.predictions[category] = PredictionList_add(@, prediction)]
    ELSE [d EXCEPT !.predictions =
            [c \in (DOMAIN d.predictions) \cup {category} |->
                IF c = category
                THEN PredictionList_add(PredictionList_new, prediction)
                ELSE d.predictions[c]]]

ADomain_get_best_n(d, category, count) ==
    IF category \in DOMAIN d.predictions
    THEN PredictionList_get_best_n(d.predictions[category], count)
    ELSE Returned(<<>>)

ADomain_get_all(d, category) ==
    IF category \in DOMAIN d.predictions
    THEN d.predictions[category]
    ELSE <<>>

----------------------------------------------------------------------------
\* stachelhaus.rs: the pure functions of the reference matcher.

Ok(v) == [ok |-> TRUE, value |-> v]

Err(kind) == [ok |-> FALSE, value |-> kind]

\* Mutant of the projection: position 13 instead of 12.
ShiftedAa10Positions == {5, 6, 9, 13, 14, 16, 21, 29, 30}

\* The zero-based positions extract_aa10 keeps.
Aa10Positions == {5, 6, 9, 12, 14, 16, 21, 29, 30}

\* for (i, c) in aa34.chars().enumerate(): the kept characters, from
\* zero-based index i on.
RECURSIVE Aa10Chars(_, _)
Aa10Chars(aa34, i) ==
    IF i >= Len(aa34) THEN <<>>
    ELSE (IF i \in Aa10Positions THEN <<aa34[i + 1]>> ELSE <<>>)
         \o Aa10Chars(aa34, i + 1)

extract_aa10(aa34) ==
    LET aa10 == Append(Aa10Chars(aa34, 0), "K")
    IN  IF Len(aa10) # 10 THEN Err("SignatureError") ELSE Ok(aa10)

\* a.chars().zip(b.chars()).filter(|t| t.0 != t.1).count(): zip stops at the
\* shorter string.
hamming_dist(a, b) ==
    Cardinality({i \in 1..Min(Len(a), Len(b)) : a[i] # b[i]})

similarity(matches, len) == Frac(matches, len)

\* The score without the secondary penalty.
ScoreWithoutPenalty(primary_matches, primary_len, secondary_matches, secondary_len) ==
    similarity(primary_matches, primary_len)

\* primary_score - penalty / 10.0 with penalty = 1.0 - secondary/secondary_len,
\* over the common denominator 10 * primary_len * secondary_len.
calculate_score(primary_matches, primary_len, secondary_matches, secondary_len) ==
    Frac(10 * primary_matches * secondary_len
            - primary_len * (secondary_len - secondary_matches),
         10 * primary_len * secondary_len)

StachelhausSignature(aa10, aa34, winner) ==
    [aa10 |-> aa10, aa34 |-> aa34, winner |-> winner]

\* parse_sigs_internal over rows already split at the tabs: a row is the
\* sequence of its fields.
RECURSIVE parse_sigs_internal(_)
parse_sigs_internal(rows) ==
    IF rows = <<>> THEN Ok(<<>>)
    ELSE LET parts == rows[1]
             rest == parse_sigs_internal(Tail(rows))
         IN  IF Len(parts) # 5 THEN Err("SignatureError")
             ELSE IF ~rest.ok THEN rest
             ELSE Ok(<<StachelhausSignature(parts[1], parts[2], parts[4])>>
                     \o rest.value)

\* let mut max_aa10_matches: usize = 6;
InitialMaxMatches == 6

----------------------------------------------------------------------------
\* Inputs: query signatures and reference rows.

\* The signature of stachelhaus.rs's test_extract_aa10.
Q0 ==
    <<"H", "A", "K", "S", "F", "D", "M", "S", "V", "V", "Q", "C", "I",
    "A", "C", "M", "G", "G", "E", "T", "N", "C", "Y", "G", "P", "T", "E",
    "I", "T", "A", "A", "A", "T", "F">>

Subst(s, i, c) == [s EXCEPT ![i] = c]

\* s with its first k symbols replaced by a symbol no query holds.
Mismatch(s, k) == [i \in 1..Len(s) |-> IF i <= k THEN "x" ELSE s[i]]

\* s cut or padded (cyclically) to n symbols.
Resize(s, n) == [i \in 1..n |-> s[((i - 1) % Len(s)) + 1]]

\* A second query: Q0 changed at zero-based positions 0 and 5 (5 is kept by
\* extract_aa10).
Q1 == Subst(Subst(Q0, 1, "L"), 6, "E")

----------------------------------------------------------------------------
\* config.rs: Config and its path setters.  A path is the sequence of its
\* components.

\* env::current_dir()
CurrentDir == <<"/", "cwd">>

\* PathBuf::push of a relative component.
Path_push(path, component) == Append(path, component)

set_stach_from_model_dir(model_dir) == Path_push(model_dir, "signatures.tsv")

Config_new ==
    LET model_dir == Path_push(Path_push(CurrentDir, "data"), "models")
    IN  [model_dir |-> model_dir,
         stachelhaus_signatures |-> set_stach_from_model_dir(model_dir),
         stach_sig_derived |-> TRUE,
         count |-> 1,
         fungal |-> FALSE,
         skip_v3 |-> FALSE,
         skip_v2 |-> FALSE,
         skip_v1 |-> FALSE,
         skip_stachelhaus |-> FALSE,
         skip_new_stachelhaus_output |-> FALSE]

Config_model_dir(c) == c.model_dir

\* Mutant of set_model_dir: the signature path is derived again every time.
SetModelDirAlwaysDerives(c, model_dir) ==
    [c EXCEPT !.model_dir = model_dir,
              !.stachelhaus_signatures = set_stach_from_model_dir(model_dir)]

Config_set_model_dir(c, model_dir) ==
    LET moved == [c EXCEPT !.model_dir = model_dir]
    IN  IF moved.stach_sig_derived
        THEN [moved EXCEPT !.stachelhaus_signatures =
                               set_stach_from_model_dir(moved.model_dir)]
        ELSE moved

Config_stachelhaus_signatures(c) == c.stachelhaus_signatures

Config_set_stachelhaus_signatures(c, stachelhaus_signatures) ==
    [c EXCEPT !.stach_sig_derived = FALSE,
              !.stachelhaus_signatures = stachelhaus_signatures]

----------------------------------------------------------------------------
\* The ranked prediction store driven by its callers: ADomain::add and
\* ADomain::get_best_n on one query record.

Candidates ==
    {Prediction("Ala", Frac(1, 1)), Prediction("Ala", Frac(2, 1)),
     Prediction("Leu", Frac(2, 1)), Prediction("Leu", Frac(3, 1))}

StoreCategories == {"Stachelhaus", "ThreeCluster"}

NoCall == [op |-> "none", category |-> "none", arg |-> <<>>, count |-> 0,
           res |-> Returned(<<>>)]

RECURSIVE SumLen(_, _)
SumLen(f, cats) ==
    IF cats = {} THEN 0
    ELSE LET c == CHOOSE x \in cats : TRUE
         IN  Len(f[c]) + SumLen(f, cats \ {c})

TotalStored(d) == SumLen(d.predictions, DOMAIN d.predictions)

Idle ==
    /\ signatures = <<>>
    /\ models = <<>>
    /\ pc = "idle"
    /\ dom_idx = 1
    /\ sig_idx = 1
    /\ model_idx = 1
    /\ max_aa10_matches = InitialMaxMatches
    /\ max_aa34_matches = InitialMaxMatches
    /\ l_predictions = PredictionList_new
    /\ l_stach_predictions = StachPredictionList_new
    /\ aa10_in = <<>>
    /\ aa10_out = Err("none")
    /\ config = Config_new
    /\ history = <<>>
    /\ runs = 0

InitStore ==
    /\ domains = <<ADomain_new("bpsA_A1", Q0)>>
    /\ call = NoCall
    /\ Idle

StoreAdd(category, prediction) ==
    /\ ~call.res.panic
    /\ TotalStored(domains[1]) < MaxAdds
    /\ domains' = [domains EXCEPT ![1] = ADomain_add(@, category, prediction)]
    /\ call' = [op |-> "add", category |-> category, arg |-> prediction,
                count |-> 0, res |-> Returned(<<>>)]
    /\ UNCHANGED <<runs, config, history, signatures, models, pc, dom_idx, sig_idx, model_idx,
                   max_aa10_matches, max_aa34_matches, l_predictions,
                   l_stach_predictions, aa10_in, aa10_out>>

StoreGetBestN(category, count) ==
    /\ ~call.res.panic
    /\ call' = [op |-> "get_best_n", category |-> category, arg |-> <<>>,
                count |-> count,
                res |-> ADomain_get_best_n(domains[1], category, count)]
    /\ UNCHANGED <<runs, config, history, domains, signatures, models, pc, dom_idx, sig_idx,
                   model_idx, max_aa10_matches, max_aa34_matches,
                   l_predictions, l_stach_predictions, aa10_in, aa10_out>>

NextStore ==
    \/ \E c \in StoreCategories, p \in Candidates : StoreAdd(c, p)
    \/ \E c \in StoreCategories, n \in 0..MaxCount : StoreGetBestN(c, n)

SpecStore == InitStore /\ [][NextStore]_vars

----------------------------------------------------------------------------
\* Helpers of the statements about the store.

Stored(c) == ADomain_get_all(domains[1], c)

IsSortedDesc(list) ==
    \A i \in 1..(Len(list) - 1) : ~FLt(list[i].score, list[i + 1].score)

Occurrences(x, list) == Cardinality({i \in 1..Len(list) : list[i] = x})

SameBag(a, b) ==
    /\ Len(a) = Len(b)
    /\ \A i \in 1..Len(a) : Occurrences(a[i], a) = Occurrences(a[i], b)

Scores(list) == [i \in 1..Len(list) |-> list[i].score]

Without(list, i) == SubSeq(list, 1, i - 1) \o SubSeq(list, i + 1, Len(list))

RECURSIVE Orders(_)
Orders(list) ==
    IF list = <<>> THEN {<<>>}
    ELSE UNION {{<<list[i]>> \o t : t \in Orders(Without(list, i))} :
                    i \in 1..Len(list)}

RECURSIVE AddAll(_, _)
AddAll(list, order) ==
    IF order = <<>> THEN list
    ELSE AddAll(PredictionList_add(list, order[1]), Tail(order))

\* C1: get_best_n(n), n >= 1, returns a prefix of the sorted list that holds
\* at least min(n, len) entries, whose entries past the n-th are not strictly
\* below the n-th entry's score, and every entry left out is strictly below it.
C1_BestNTies ==
    (call.op = "get_best_n" /\ call.count >= 1) =>
        LET list == Stored(call.category)
            n == call.count
            v == call.res.value
        IN  /\ ~call.res.panic
            /\ Len(v) >= Min(n, Len(list))
            /\ Len(v) <= Len(list)
            /\ v = SubSeq(list, 1, Len(v))
            /\ \A i \in (n + 1)..Len(v) : ~FLt(list[i].score, list[n].score)
            /\ \A i \in (Len(v) + 1)..Len(list) :
                    FLt(list[i].score, list[n].score)

\* A call that returned more than n entries and left some out.
C1_Witness ==
    /\ call.op = "get_best_n"
    /\ call.count >= 1
    /\ Len(call.res.value) > call.count
    /\ Len(call.res.value) < Len(Stored(call.category))

\* C2: get_best_n(0) on any list and get_best_n(n) on an empty list return
\* the empty sequence without panicking, for PredictionList, ADomain and
\* StachPredictionList.
C2_ZeroOrEmpty ==
    /\ (call.op = "get_best_n"
            /\ (call.count = 0 \/ Stored(call.category) = <<>>)) =>
        (~call.res.panic /\ call.res.value = <<>>)
    /\ \A i \in 1..Len(domains) :
        StachPredictionList_get_best_n(domains[i].stach_predictions, 0)
            = Returned(<<>>)

\* C3: every add leaves the list of its category sorted descending by score,
\* one entry longer, holding exactly the old entries and the added candidate;
\* the other categories' lists are untouched.
C3_AddKeepsSortedBag ==
    [][call'.op = "add" =>
        LET c == call'.category
            old == Stored(c)
            new == ADomain_get_all(domains'[1], c)
        IN  /\ Len(new) = Len(old) + 1
            /\ IsSortedDesc(new)
            /\ SameBag(new, Append(old, call'.arg))
            /\ \A o \in StoreCategories \ {c} :
                    ADomain_get_all(domains'[1], o) = Stored(o)]_vars

\* A list that holds the same name twice after an add.
C3_Witness ==
    /\ call.op = "add"
    /\ LET list == Stored(call.category)
       IN  /\ Len(list) >= 3
           /\ \E i, j \in 1..Len(list) : i < j /\ list[i].name = list[j].name
           /\ \E i, j \in 1..Len(list) : FLt(list[j].score, list[i].score)

\* C4 as stated: adding the stored candidates in any other order gives the
\* identical stored sequence and identical get_best_n results.
C4_OrderIdentical ==
    \A c \in StoreCategories :
        \A order \in Orders(Stored(c)) :
            LET other == AddAll(PredictionList_new, order)
            IN  /\ other = Stored(c)
                /\ \A n \in 1..MaxCount :
                        PredictionList_get_best_n(other, n)
                            = PredictionList_get_best_n(Stored(c), n)

\* C4 amended: adding the stored candidates in any other order gives a list
\* with the same score sequence and the same candidates, and for every n >= 1
\* get_best_n returns the same candidates with the same score sequence; only
\* the order among equal scores may differ.
C4_OrderSameScoresAndBag ==
    \A c \in StoreCategories :
        \A order \in Orders(Stored(c)) :
            LET other == AddAll(PredictionList_new, order)
            IN  /\ Scores(other) = Scores(Stored(c))
                /\ SameBag(other, Stored(c))
                /\ \A n \in 1..MaxCount :
                        LET a == PredictionList_get_best_n(other, n)
                            b == PredictionList_get_best_n(Stored(c), n)
                        IN  /\ ~a.panic /\ ~b.panic
                            /\ Scores(a.value) = Scores(b.value)
                            /\ SameBag(a.value, b.value)

\* A list of at least three entries with two names at one score, and one
\* order of adding them that stores a different sequence.
C4_Witness ==
    \E c \in StoreCategories :
        /\ Len(Stored(c)) >= 3
        /\ \E i \in 1..(Len(Stored(c)) - 1) :
                /\ FEq(Stored(c)[i].score, Stored(c)[i + 1].score)
                /\ Stored(c)[i].name # Stored(c)[i + 1].name
        /\ \E order \in Orders(Stored(c)) :
                AddAll(PredictionList_new, order) # Stored(c)

----------------------------------------------------------------------------
\* stachelhaus.rs: predict_stachelhaus and predict, one step per reference
\* entry of the scan.

\* The primary window of Q0, "DMVICGCAAK".
A0 == extract_aa10(Q0).value

Row(aa10, aa34, winner) == <<aa10, aa34, "all", winner, "ids">>

\* Reference rows: full and partial matches of Q0, two rows with the same
\* windows, windows shorter than 10 and 34 symbols, and a row of 4 fields.
RefRows ==
    {Row(A0, Q0, "Ala"),
     Row(Mismatch(A0, 3), Mismatch(Q0, 10), "Leu"),
     Row(Mismatch(A0, 3), Mismatch(Q0, 4), "Ala"),
     Row(Mismatch(A0, 4), Q0, "Val"),
     Row(Mismatch(A0, 2), Mismatch(Q0, 10), "Leu"),
     Row(Mismatch(A0, 2), Mismatch(Q0, 10), "Ala"),
     Row(Mismatch(A0, 1), Resize(Q0, 20), "Gly"),
     Row(<<"x", "x", "x">>, Mismatch(Q0, 6), "Ser"),
     <<A0, Q0, "Ala", "ids">>}

RowSeqs == UNION {[1..n -> RefRows] : n \in 0..MaxSigs}

\* The query records handed to predict: well-formed ones, and one whose
\* signature is too short for extract_aa10.
MatchDomainLists ==
    {<<ADomain_new("q0", Q0)>>,
     <<ADomain_new("q1", Q1), ADomain_new("q0", Q0)>>,
     <<ADomain_new("short", Resize(Q0, 17))>>}

\* let aa10_matches = aa10.len() - hamming_dist(&aa10, &sig.aa10);
Aa10Matches(d, sig) ==
    LET aa10 == extract_aa10(d.aa34).value
    IN  Len(aa10) - hamming_dist(aa10, sig.aa10)

\* let aa34_matches = domain.aa34.len() - hamming_dist(&domain.aa34, &sig.aa34);
Aa34Matches(d, sig) == Len(d.aa34) - hamming_dist(d.aa34, sig.aa34)

\* The Prediction a recorded entry produces.
RecordedPrediction(d, sig) ==
    Prediction(sig.winner,
               calculate_score(Aa10Matches(d, sig),
                               Len(extract_aa10(d.aa34).value),
                               Aa34Matches(d, sig), Len(d.aa34)))

\* The StachPrediction a recorded entry produces.
RecordedStachPrediction(d, sig) ==
    StachPrediction(sig.winner,
                    similarity(Aa10Matches(d, sig),
                               Len(extract_aa10(d.aa34).value)),
                    sig.aa10,
                    similarity(Aa34Matches(d, sig), Len(sig.aa34)),
                    sig.aa34)

\* for pred in predictions.get_best().iter() { domain.add(Stachelhaus, pred) }
RECURSIVE AddEach(_, _, _)
AddEach(d, category, preds) ==
    IF preds = <<>> THEN d
    ELSE AddEach(ADomain_add(d, category, preds[1]), category, Tail(preds))

InitMatch ==
    /\ domains \in MatchDomainLists
    /\ call = NoCall
    /\ Idle

PredictStachelhaus(rows) ==
    /\ pc = "idle"
    /\ LET parsed == parse_sigs_internal(rows)
       IN  IF parsed.ok
           THEN signatures' = parsed.value /\ pc' = "domain"
           ELSE signatures' = signatures /\ pc' = "failed"
    /\ dom_idx' = 1
    /\ UNCHANGED <<runs, config, history, domains, call, models, sig_idx, model_idx,
                   max_aa10_matches, max_aa34_matches, l_predictions,
                   l_stach_predictions, aa10_in, aa10_out>>

StartDomain ==
    /\ pc = "domain"
    /\ dom_idx <= Len(domains)
    /\ IF extract_aa10(domains[dom_idx].aa34).ok
       THEN /\ pc' = "scan"
            /\ max_aa10_matches' = InitialMaxMatches
            /\ max_aa34_matches' = InitialMaxMatches
            /\ l_predictions' = PredictionList_new
            /\ l_stach_predictions' = StachPredictionList_new
            /\ sig_idx' = 1
       ELSE /\ pc' = "failed"
            /\ UNCHANGED <<max_aa10_matches, max_aa34_matches, l_predictions,
                           l_stach_predictions, sig_idx>>
    /\ UNCHANGED <<runs, config, history, domains, call, signatures, models, dom_idx, model_idx,
                   aa10_in, aa10_out>>

ScanEntry ==
    /\ pc = "scan"
    /\ sig_idx <= Len(signatures)
    /\ LET d == domains[dom_idx]
           sig == signatures[sig_idx]
           aa10_matches == Aa10Matches(d, sig)
           aa34_matches == Aa34Matches(d, sig)
       IN  IF aa10_matches > max_aa10_matches
           THEN /\ max_aa10_matches' = aa10_matches
                /\ max_aa34_matches' = max_aa34_matches
                /\ l_predictions' =
                     PredictionList_add(l_predictions, RecordedPrediction(d, sig))
                /\ l_stach_predictions' =
                     StachPredictionList_add(l_stach_predictions,
                                             RecordedStachPrediction(d, sig))
           ELSE IF aa10_matches = max_aa10_matches
                   /\ aa34_matches > max_aa34_matches
           THEN /\ max_aa34_matches' = aa34_matches
                /\ max_aa10_matches' = max_aa10_matches
                /\ l_predictions' =
                     PredictionList_add(l_predictions, RecordedPrediction(d, sig))
                /\ l_stach_predictions' =
                     StachPredictionList_add(l_stach_predictions,
                                             RecordedStachPrediction(d, sig))
           ELSE UNCHANGED <<max_aa10_matches, max_aa34_matches, l_predictions,
                            l_stach_predictions>>
    /\ sig_idx' = sig_idx + 1
    /\ UNCHANGED <<runs, config, history, domains, call, signatures, models, pc, dom_idx, model_idx,
                   aa10_in, aa10_out>>

\* Mutant of the end of a scan: the category list is replaced by the scan's
\* best candidates, like the Detail list.
FinishDomainReplacesCategory ==
    /\ pc = "scan"
    /\ sig_idx > Len(signatures)
    /\ domains' =
         [domains EXCEPT ![dom_idx] =
            [AddEach(ADomain_new(@.name, @.aa34), "Stachelhaus",
                     PredictionList_get_best(l_predictions).value)
                EXCEPT !.stach_predictions = l_stach_predictions]]
    /\ dom_idx' = dom_idx + 1
    /\ pc' = IF dom_idx = Len(domains) THEN "done" ELSE "domain"
    /\ UNCHANGED <<runs, config, history, call, signatures, models, sig_idx, model_idx,
                   max_aa10_matches, max_aa34_matches, l_predictions,
                   l_stach_predictions, aa10_in, aa10_out>>

FinishDomain ==
    /\ pc = "scan"
    /\ sig_idx > Len(signatures)
    /\ domains' =
         [domains EXCEPT ![dom_idx] =
            [AddEach(@, "Stachelhaus",
                     PredictionList_get_best(l_predictions).value)
                EXCEPT !.stach_predictions = l_stach_predictions]]
    /\ dom_idx' = dom_idx + 1
    /\ pc' = IF dom_idx = Len(domains) THEN "done" ELSE "domain"
    /\ UNCHANGED <<runs, config, history, call, signatures, models, sig_idx, model_idx,
                   max_aa10_matches, max_aa34_matches, l_predictions,
                   l_stach_predictions, aa10_in, aa10_out>>

NextMatch ==
    \/ \E rows \in RowSeqs : PredictStachelhaus(rows)
    \/ StartDomain
    \/ ScanEntry
    \/ FinishDomain

SpecMatch == InitMatch /\ [][NextMatch]_vars

----------------------------------------------------------------------------
\* Statements about the reference matcher.

\* Positions of the 10-symbol window at which both strings hold the same symbol.
MatchingPositions(a, b) ==
    Cardinality({i \in 1..10 : i <= Len(a) /\ i <= Len(b) /\ a[i] = b[i]})

RecordsCandidate ==
    /\ pc = "scan"
    /\ \/ Len(l_predictions') > Len(l_predictions)
       \/ Len(l_stach_predictions') > Len(l_stach_predictions)

\* C5: a scan step records a candidate (in either list) only for a reference
\* entry with primary_matches >= 7; an entry whose 10-symbol window matches
\* the query's in 6 or fewer positions is never recorded.
C5_RecordedNeedsSeven ==
    [][RecordsCandidate =>
        LET d == domains[dom_idx]
            sig == signatures[sig_idx]
        IN  /\ Aa10Matches(d, sig) >= 7
            /\ Len(sig.aa10) = 10 =>
                 MatchingPositions(extract_aa10(d.aa34).value, sig.aa10) >= 7]_vars

\* The query record whose scan has just been finished.
ScanFinished == pc \in {"domain", "done"} /\ dom_idx > 1

LastScanned == domains[dom_idx - 1]

\* C6 as stated: after the scan the Stachelhaus category list and the Detail
\* list both hold every recorded candidate.
C6_BothListsHoldAllRecorded ==
    ScanFinished =>
        /\ Len(ADomain_get_all(LastScanned, "Stachelhaus")) = Len(l_predictions)
        /\ Len(LastScanned.stach_predictions) = Len(l_predictions)

\* C6 amended: after the scan the Detail list holds every recorded candidate;
\* the Stachelhaus category list holds exactly the recorded candidates of
\* maximal combined score (get_best of the scan's list), and the category
\* has no list when nothing was recorded.
C6_DetailAllCategoryBest ==
    ScanFinished =>
        LET cat == ADomain_get_all(LastScanned, "Stachelhaus")
            rec == l_predictions
            IsBest(p) == \A j \in 1..Len(rec) : ~FLt(p.score, rec[j].score)
        IN  /\ Len(LastScanned.stach_predictions) = Len(rec)
            /\ SameBag(LastScanned.stach_predictions, l_stach_predictions)
            /\ Len(cat) <= Len(rec)
            /\ (Len(rec) > 0) = ("Stachelhaus" \in DOMAIN LastScanned.predictions)
            /\ \A i \in 1..Len(cat) : IsBest(cat[i])
            /\ \A j \in 1..Len(rec) :
                 IsBest(rec[j]) =>
                    Occurrences(rec[j], cat) = Occurrences(rec[j], rec)

\* A finished scan that recorded three candidates and put one in the category.
C6_Witness ==
    /\ ScanFinished
    /\ Len(l_predictions) = 3
    /\ Len(LastScanned.stach_predictions) = 3
    /\ Len(ADomain_get_all(LastScanned, "Stachelhaus")) = 1

InUnitInterval(f) == f.den > 0 /\ 0 <= f.num /\ f.num <= f.den

\* C9: every Detail Candidate has primary and secondary score within [0, 1].
C9_DetailScoresInUnitInterval ==
    /\ \A i \in 1..Len(l_stach_predictions) :
        /\ InUnitInterval(l_stach_predictions[i].aa10_score)
        /\ InUnitInterval(l_stach_predictions[i].aa34_score)
    /\ \A k \in 1..Len(domains) :
        \A i \in 1..Len(domains[k].stach_predictions) :
            /\ InUnitInterval(domains[k].stach_predictions[i].aa10_score)
            /\ InUnitInterval(domains[k].stach_predictions[i].aa34_score)

----------------------------------------------------------------------------
\* extract_aa10 applied to signatures of every length up to MaxSigLen, and to
\* Q0 with each single position changed.

Aa10Inputs ==
    {Resize(q, n) : q \in {Q0, Q1}, n \in 0..MaxSigLen}
        \cup {Subst(Q0, i, "x") : i \in 1..Len(Q0)}

InitAa10 ==
    /\ domains = <<ADomain_new("q0", Q0)>>
    /\ call = NoCall
    /\ Idle

ExtractAa10(s) ==
    /\ aa10_in' = s
    /\ aa10_out' = extract_aa10(s)
    /\ UNCHANGED <<runs, config, history, domains, call, signatures, models, pc, dom_idx, sig_idx,
                   model_idx, max_aa10_matches, max_aa34_matches,
                   l_predictions, l_stach_predictions>>

NextAa10 == \E s \in Aa10Inputs : ExtractAa10(s)

SpecAa10 == InitAa10 /\ [][NextAa10]_vars

Aa10Called == aa10_out # Err("none")

\* C7: extract_aa10 fails for every input that is not exactly 34 symbols long
\* and succeeds for every 34-symbol input.
C7_FailsUnless34 ==
    Aa10Called => (aa10_out.ok = (Len(aa10_in) = 34))

\* C8: for a 34-symbol signature s, extract_aa10(s) is s[5] s[6] s[9] s[12]
\* s[14] s[16] s[21] s[29] s[30] (zero-based) followed by 'K'.
C8_Projection ==
    (Aa10Called /\ Len(aa10_in) = 34) =>
        aa10_out = Ok(<<aa10_in[6], aa10_in[7], aa10_in[10], aa10_in[13],
                        aa10_in[15], aa10_in[17], aa10_in[22], aa10_in[30],
                        aa10_in[31], "K">>)

\* A 34-symbol signature other than Q0 whose changed symbol (zero-based
\* position 12) shows in the window.
C8_Witness ==
    /\ Aa10Called
    /\ Len(aa10_in) = 34
    /\ aa10_in # Q0
    /\ aa10_out.ok
    /\ aa10_out.value[4] = "x"

----------------------------------------------------------------------------
\* svm/ and encodings/: the linear classifier in fixed point.  Feature and
\* support vector values are in tenths, kernel values and the bias in
\* hundredths, so a score is Frac(n, 100).

\* wold::encode_one: (raw - mean) / stdev of the three tables, in tenths,
\* rounded; a symbol the tables do not hold gives -mean / stdev, which
\* rounds to 0.
wold_encode_one(c) ==
    CASE c = "A" -> <<0, -9, 1>>
      [] c = "C" -> <<3, -5, 27>>
      [] c = "D" -> <<14, 6, 15>>
      [] c = "E" -> <<12, 2, 0>>
      [] c = "F" -> <<-19, 7, 3>>
      [] c = "G" -> <<9, -29, 2>>
      [] c = "H" -> <<9, 9, 7>>
      [] c = "I" -> <<-17, -9, -7>>
      [] c = "K" -> <<11, 8, -20>>
      [] c = "L" -> <<-16, -6, -6>>
      [] c = "M" -> <<-10, -1, -3>>
      [] c = "N" -> <<12, 8, 5>>
      [] c = "P" -> <<-5, 5, 14>>
      [] c = "Q" -> <<8, 3, -7>>
      [] c = "R" -> <<11, 14, -22>>
      [] c = "S" -> <<7, -9, 4>>
      [] c = "T" -> <<4, -11, -9>>
      [] c = "V" -> <<-10, -14, -8>>
      [] c = "W" -> <<-18, 20, 5>>
      [] c = "Y" -> <<-5, 12, 0>>
      [] OTHER -> <<0, 0, 0>>

\* The parts encode_one gives for sequence[lo..hi], appended in order.
RECURSIVE AppendParts(_, _, _)
AppendParts(sequence, lo, hi) ==
    IF lo > hi THEN <<>>
    ELSE IF lo = hi THEN wold_encode_one(sequence[lo])
    ELSE LET mid == (lo + hi) \div 2
         IN  AppendParts(sequence, lo, mid) \o AppendParts(sequence, mid + 1, hi)

wold_encode(sequence) == AppendParts(sequence, 1, Len(sequence))

SupportVector(values, yalpha) == [values |-> values, yalpha |-> yalpha]

SVMlightModel(name, category, vectors, bias) ==
    [name |-> name, category |-> category, vectors |-> vectors, bias |-> bias,
     encoding |-> "Wold", kernel_type |-> "Linear", gamma |-> 0]

\* fold(0.0, |sum, (el_a, el_b)| sum + el_a * el_b) over positions lo..hi.
RECURSIVE SumProducts(_, _, _, _)
SumProducts(a, b, lo, hi) ==
    IF lo > hi THEN 0
    ELSE IF lo = hi THEN a[lo] * b[lo]
    ELSE LET mid == (lo + hi) \div 2
         IN  SumProducts(a, b, lo, mid) + SumProducts(a, b, mid + 1, hi)

\* vectors.rs dot: DimensionMismatch unless the lengths agree.
dot(a, b) ==
    IF Len(a) # Len(b) THEN Err("DimensionMismatch")
    ELSE Ok(SumProducts(a, b, 1, Len(a)))

\* LinearKernel::compute: vec1.similarity(vec2).
LinearKernel_compute(svec, fvec) == dot(svec.values, fvec)

\* vectors.rs element_subtract: DimensionMismatch unless the lengths agree.
element_subtract(a, b) ==
    IF Len(a) # Len(b) THEN Err("DimensionMismatch")
    ELSE Ok([i \in 1..Len(a) |-> a[i] - b[i]])

\* Vector::square_dist
square_dist(a, b) ==
    LET temp == element_subtract(a, b)
    IN  IF ~temp.ok THEN temp ELSE dot(temp.value, temp.value)

\* exp(-x) in hundredths, for x >= 0 given in hundredths and rounded down to
\* a whole number; 0 from exp(-6) on.
ExpNeg(x) ==
    LET table == <<100, 37, 14, 5, 2, 1>>
        n == x \div 100
    IN  IF n + 1 <= Len(table) THEN table[n + 1] ELSE 0

\* RBFKernel::compute: exp(-gamma * vec1.square_dist(vec2)?), gamma >= 0.
RBFKernel_compute(gamma, svec, fvec) ==
    LET d == square_dist(svec.values, fvec)
    IN  IF ~d.ok THEN d ELSE Ok(ExpNeg(gamma * d.value))

\* self.kernel.compute(svec, vec): the kernel SVMlightModel::new chose.
Kernel_compute(model, svec, fvec) ==
    IF model.kernel_type = "RBF"
    THEN RBFKernel_compute(model.gamma, svec, fvec)
    ELSE LinearKernel_compute(svec, fvec)

\* try_fold(0.0, |sum, svec| Ok(sum + svec.yalpha * kernel.compute(svec, vec)?))
RECURSIVE FoldVectors(_, _, _, _)
FoldVectors(model, vectors, fvec, sum) ==
    IF vectors = <<>> THEN Ok(sum)
    ELSE LET k == Kernel_compute(model, vectors[1], fvec)
         IN  IF ~k.ok THEN k
             ELSE FoldVectors(model, Tail(vectors), fvec,
                              sum + vectors[1].yalpha * k.value)

\* Mutant of predict: the bias is added.
PredictAddsBias(model, fvec) ==
    LET res == FoldVectors(model, model.vectors, fvec, 0)
    IN  IF ~res.ok THEN res ELSE Ok(Frac(res.value + model.bias, 100))

SVMlightModel_predict(model, fvec) ==
    LET res == FoldVectors(model, model.vectors, fvec, 0)
    IN  IF ~res.ok THEN res ELSE Ok(Frac(res.value - model.bias, 100))

SVMlightModel_predict_seq(model, sequence) ==
    SVMlightModel_predict(model, wold_encode(sequence))

\* Mutant of the vote test: a score of exactly 0 votes too.
VotesUnlessNegative(score) == FLe(Frac(0, 1), score)

\* if score > 0.0
Votes(score) == FLt(Frac(0, 1), score)

----------------------------------------------------------------------------
\* predictors/mod.rs: Predictor::predict, one step per (model, domain) pair.

\* A vector of dim values, all 0 but val at the one-based index idx.
Sparse(dim, idx, val) == [i \in 1..dim |-> IF i = idx THEN val ELSE 0]

\* The length of the Wold encoding of a 34-symbol signature.
FeatureDim == 3 * 34

\* Models that score Q0 and Q1 positive, zero and negative, one with two
\* support vectors, and one whose vectors have the wrong dimension.
ModelSet ==
    {SVMlightModel("ala", "ThreeCluster",
                   <<SupportVector(Sparse(FeatureDim, 1, 10), 1)>>, 0),
     SVMlightModel("leu", "ThreeCluster",
                   <<SupportVector(Sparse(FeatureDim, 1, 10), 1)>>, 90),
     SVMlightModel("val", "LargeCluster",
                   <<SupportVector(Sparse(FeatureDim, 1, 10), -1)>>, 0),
     SVMlightModel("gly", "LargeCluster",
                   <<SupportVector(Sparse(FeatureDim, 2, 10), 2),
                     SupportVector(Sparse(FeatureDim, 4, 5), -1)>>, -10),
     SVMlightModel("ser", "ThreeCluster",
                   <<SupportVector(Sparse(3, 1, 10), 1)>>, 0)}

ModelSeqs == UNION {[1..n -> ModelSet] : n \in 0..MaxModels}

PredictorDomainLists ==
    {<<ADomain_new("q0", Q0)>>,
     <<ADomain_new("q1", Q1)>>,
     <<ADomain_new("q0", Q0), ADomain_new("q1", Q1)>>}

InitPredictor ==
    /\ domains \in PredictorDomainLists
    /\ call = NoCall
    /\ Idle

\* load_models and Predictor { models }: the bank is an input here.
LoadModels(ms) ==
    /\ pc = "idle"
    /\ models' = ms
    /\ model_idx' = 1
    /\ dom_idx' = 1
    /\ pc' = IF ms = <<>> THEN "done" ELSE "predict"
    /\ UNCHANGED <<runs, config, history, domains, call, signatures, sig_idx, max_aa10_matches,
                   max_aa34_matches, l_predictions, l_stach_predictions,
                   aa10_in, aa10_out>>

PredictPair ==
    /\ pc = "predict"
    /\ LET model == models[model_idx]
           domain == domains[dom_idx]
           score == SVMlightModel_predict_seq(model, domain.aa34)
           last == model_idx = Len(models) /\ dom_idx = Len(domains)
       IN  IF ~score.ok
           THEN /\ pc' = "failed"
                /\ UNCHANGED <<domains, model_idx, dom_idx>>
           ELSE /\ domains' =
                     IF Votes(score.value)
                     THEN [domains EXCEPT ![dom_idx] =
                             ADomain_add(@, model.category,
                                         Prediction(model.name, score.value))]
                     ELSE domains
                /\ dom_idx' = IF dom_idx < Len(domains) THEN dom_idx + 1 ELSE 1
                /\ model_idx' =
                     IF dom_idx < Len(domains) THEN model_idx ELSE model_idx + 1
                /\ pc' = IF last THEN "done" ELSE "predict"
    /\ UNCHANGED <<runs, config, history, call, signatures, models, sig_idx, max_aa10_matches,
                   max_aa34_matches, l_predictions, l_stach_predictions,
                   aa10_in, aa10_out>>

NextPredictor ==
    \/ \E ms \in ModelSeqs : LoadModels(ms)
    \/ PredictPair

SpecPredictor == InitPredictor /\ [][NextPredictor]_vars

\* The pairs (model i, domain k) Predictor::predict has dealt with.
Evaluated(i, k) ==
    /\ i \in 1..Len(models)
    /\ k \in 1..Len(domains)
    /\ i < model_idx \/ (i = model_idx /\ k < dom_idx)

ScoreOf(i, k) == SVMlightModel_predict_seq(models[i], domains[k].aa34)

\* The evaluated models of category c whose score for domain k is above 0.
Voters(k, c) ==
    {i \in 1..Len(models) :
        /\ Evaluated(i, k)
        /\ models[i].category = c
        /\ ScoreOf(i, k).ok
        /\ ScoreOf(i, k).value.num > 0}

VoteOf(i, k) == Prediction(models[i].name, ScoreOf(i, k).value)

\* C10: at every point of Predictor::predict, the list of each domain and
\* category holds exactly one prediction (model name, score) for each
\* evaluated model of that category whose score is strictly above 0, and
\* nothing for a score of 0 or below.
C10_VotesIffPositive ==
    \A k \in 1..Len(domains) :
        \A c \in PredictionCategory :
            LET list == ADomain_get_all(domains[k], c)
            IN  /\ Len(list) = Cardinality(Voters(k, c))
                /\ \A i \in Voters(k, c) :
                     Occurrences(VoteOf(i, k), list) =
                        Cardinality({j \in Voters(k, c) :
                                        VoteOf(j, k) = VoteOf(i, k)})

\* A finished run in which one pair scored exactly 0, one below 0 and one
\* above 0.
C10_Witness ==
    /\ pc = "done"
    /\ \E i \in 1..Len(models), k \in 1..Len(domains) :
            ScoreOf(i, k).value.num = 0
    /\ \E i \in 1..Len(models), k \in 1..Len(domains) :
            ScoreOf(i, k).value.num < 0
    /\ \E k \in 1..Len(domains), c \in PredictionCategory : Voters(k, c) # {}

----------------------------------------------------------------------------
\* config.rs: a Config driven by its two path setters.

MaxCalls == 4

PathArgs ==
    {<<"/", "foo">>, <<"/", "bar">>, <<"/", "foo", "signatures.tsv">>, <<>>}

\* The variables the Config setters leave alone.
NonConfigVars ==
    <<domains, call, signatures, models, pc, dom_idx, sig_idx, model_idx,
      max_aa10_matches, max_aa34_matches, l_predictions, l_stach_predictions,
      aa10_in, aa10_out, runs>>

InitConfig ==
    /\ domains = <<>>
    /\ call = NoCall
    /\ Idle

SetModelDir(model_dir) ==
    /\ Len(history) < MaxCalls
    /\ config' = Config_set_model_dir(config, model_dir)
    /\ history' = Append(history, [op |-> "set_model_dir", arg |-> model_dir])
    /\ UNCHANGED NonConfigVars

SetStachelhausSignatures(path) ==
    /\ Len(history) < MaxCalls
    /\ config' = Config_set_stachelhaus_signatures(config, path)
    /\ history' = Append(history, [op |-> "set_stachelhaus_signatures",
                                   arg |-> path])
    /\ UNCHANGED NonConfigVars

NextConfig ==
    \/ \E path \in PathArgs : SetModelDir(path)
    \/ \E path \in PathArgs : SetStachelhausSignatures(path)

SpecConfig == InitConfig /\ [][NextConfig]_vars

\* The positions of history that hold a call of the given setter.
CallsOf(op) == {i \in 1..Len(history) : history[i].op = op}

LastOf(S) == CHOOSE i \in S : \A j \in S : j <= i

\* C20: while set_stachelhaus_signatures has never been called, after a
\* set_model_dir the signature path is the model directory joined with
\* "signatures.tsv"; once set_stachelhaus_signatures(p) has been called, a
\* later set_model_dir changes the model directory only and the signature
\* path stays the last p.  The model directory is always the last one set.
C20_SignaturePathFollowsSetters ==
    LET dirs == CallsOf("set_model_dir")
        sigs == CallsOf("set_stachelhaus_signatures")
    IN  /\ dirs # {} =>
               Config_model_dir(config) = history[LastOf(dirs)].arg
        /\ (dirs # {} /\ sigs = {}) =>
               Config_stachelhaus_signatures(config) =
                   Config_model_dir(config) \o <<"signatures.tsv">>
        /\ sigs # {} =>
               Config_stachelhaus_signatures(config) =
                   history[LastOf(sigs)].arg

\* set_stachelhaus_signatures("/bar") followed by set_model_dir("/foo").
C20_Witness ==
    /\ Len(history) >= 2
    /\ history[Len(history) - 1] =
           [op |-> "set_stachelhaus_signatures", arg |-> <<"/", "bar">>]
    /\ history[Len(history)] = [op |-> "set_model_dir", arg |-> <<"/", "foo">>]
    /\ Config_model_dir(config) = <<"/", "foo">>
    /\ Config_stachelhaus_signatures(config) = <<"/", "bar">>

----------------------------------------------------------------------------
\* lib.rs: parse_domain and parse_domains_from_reader.

\* str::split(sep): the pieces between the separators; n separators give
\* n + 1 pieces, empty ones included.
Split(s, sep) ==
    LET P == {i \in 1..Len(s) : s[i] = sep}
        n == Cardinality(P)
        pos(k) == IF k = 0 THEN 0
                  ELSE IF k = n + 1 THEN Len(s) + 1
                  ELSE CHOOSE i \in P : Cardinality({j \in P : j < i}) = k - 1
    IN  [k \in 1..(n + 1) |-> SubSeq(s, pos(k - 1) + 1, pos(k) - 1)]

\* char::is_whitespace, for the characters the inputs use.
Whitespace == {" ", "\t", "\r", "\n"}

\* str::trim(): without its leading and trailing whitespace.
Trim(s) ==
    LET keep == {i \in 1..Len(s) : s[i] \notin Whitespace}
    IN  IF keep = {} THEN <<>>
        ELSE SubSeq(s, CHOOSE i \in keep : \A j \in keep : i <= j,
                       CHOOSE i \in keep : \A j \in keep : j <= i)

\* BufRead::lines(): the text split at "\n", without a final empty piece,
\* each line without its "\n" and a "\r" before it.
Lines(text) ==
    LET pieces == Split(text, "\n")
        n == IF pieces[Len(pieces)] = <<>> THEN Len(pieces) - 1
             ELSE Len(pieces)
        strip(l, terminated) ==
            IF terminated /\ l # <<>> /\ l[Len(l)] = "\r"
            THEN SubSeq(l, 1, Len(l) - 1) ELSE l
    IN  [k \in 1..n |-> strip(pieces[k], k < Len(pieces))]

\* Mutant of parse_domain: the name of a three-field line is put together
\* the other way round.
ParseDomainNameOrder(line) ==
    LET parts == Split(line, "\t")
    IN  IF Len(parts) < 2 THEN Err("SignatureError")
        ELSE IF Len(parts[1]) # 34 THEN Err("SignatureError")
        ELSE Ok(ADomain_new(IF Len(parts) = 2 THEN parts[2]
                            ELSE parts[2] \o <<"_">> \o parts[3],
                            parts[1]))

parse_domain(line) ==
    LET parts == Split(line, "\t")
    IN  IF Len(parts) < 2 THEN Err("SignatureError")
        ELSE IF Len(parts[1]) # 34 THEN Err("SignatureError")
        ELSE LET name == IF Len(parts) = 2 THEN parts[2]
                         ELSE parts[3] \o <<"_">> \o parts[2]
             IN  Ok(ADomain_new(name, parts[1]))

\* for line_res in reader.lines(): trim, skip the empty ones, push
\* parse_domain(line)?.
RECURSIVE ParseEach(_, _)
ParseEach(lines, acc) ==
    IF lines = <<>> THEN Ok(acc)
    ELSE LET line == Trim(lines[1])
         IN  IF line = <<>> THEN ParseEach(Tail(lines), acc)
             ELSE LET d == parse_domain(line)
                  IN  IF ~d.ok THEN d
                      ELSE ParseEach(Tail(lines), Append(acc, d.value))

parse_domains_from_reader(text) == ParseEach(Lines(text), <<>>)

\* Inputs.  A line is written down as its tab-separated fields, and a line
\* of a file as leading whitespace, fields, trailing whitespace.

MaxLines == 3

RECURSIVE JoinWith(_, _)
JoinWith(pieces, sep) ==
    IF pieces = <<>> THEN <<>>
    ELSE IF Len(pieces) = 1 THEN pieces[1]
    ELSE pieces[1] \o <<sep>> \o JoinWith(Tail(pieces), sep)

NameA == <<"b", "p", "s", "A">>
NameB == <<"H", "p", "g">>
NameC == <<"C", "A", "C">>

FieldSeqs ==
    {<<Q0, NameA>>, <<Q1, NameB, NameC>>, <<Q0, NameA, NameB, NameC>>,
     <<Q0>>, <<<<>>>>, <<Q0, <<>>>>, <<<<>>, Q0, NameA>>,
     <<Resize(Q0, 33), NameA>>, <<Resize(Q0, 35), NameA>>,
     <<NameA, Q0>>, <<Q1, NameA, <<>>>>}

FileLine(lead, fields, trail) ==
    [lead |-> lead, fields |-> fields, trail |-> trail]

FileLines ==
    {FileLine(<<>>, <<Q0, NameA>>, <<>>),
     FileLine(<<" ">>, <<Q1, NameB, NameC>>, <<" ", "\r">>),
     FileLine(<<"\t">>, <<Q0, NameC>>, <<>>),
     FileLine(<<>>, <<<<>>>>, <<>>),
     FileLine(<<" ">>, <<<<>>>>, <<"\t">>),
     FileLine(<<>>, <<Q0>>, <<>>),
     FileLine(<<>>, <<Resize(Q0, 33), NameA>>, <<>>)}

RawLine(fl) == fl.lead \o JoinWith(fl.fields, "\t") \o fl.trail

Files == UNION {[1..n -> FileLines] : n \in 0..MaxLines}

\* The text of a file: its lines, each ended by "\n" but for the last one
\* when the file is unterminated.
FileText(file, terminated) ==
    JoinWith([k \in 1..Len(file) |-> RawLine(file[k])], "\n")
        \o (IF terminated /\ file # <<>> THEN <<"\n">> ELSE <<>>)

\* The variables a single call of a function leaves alone.
NonCallVars ==
    <<domains, signatures, models, dom_idx, sig_idx, model_idx,
      max_aa10_matches, max_aa34_matches, l_predictions, l_stach_predictions,
      aa10_in, aa10_out, config, history, runs>>

InitParse ==
    /\ domains = <<>>
    /\ call = NoCall
    /\ Idle

ParseDomain(fields) ==
    /\ pc = "idle"
    /\ pc' = "done"
    /\ call' = [op |-> "parse_domain", fields |-> fields,
                res |-> parse_domain(JoinWith(fields, "\t"))]
    /\ UNCHANGED NonCallVars

ParseDomainsFromReader(file, terminated) ==
    /\ pc = "idle"
    /\ pc' = "done"
    /\ call' = [op |-> "parse_domains_from_reader", file |-> file,
                res |-> parse_domains_from_reader(FileText(file, terminated))]
    /\ UNCHANGED NonCallVars

NextParse ==
    \/ \E fields \in FieldSeqs : ParseDomain(fields)
    \/ \E file \in Files, terminated \in BOOLEAN :
            ParseDomainsFromReader(file, terminated)

SpecParse == InitParse /\ [][NextParse]_vars

\* What the claim says of a line given by its fields.
WellFormedFields(fields) == Len(fields) >= 2 /\ Len(fields[1]) = 34

DomainOfFields(fields) ==
    [name |-> IF Len(fields) = 2 THEN fields[2]
              ELSE fields[3] \o <<"_">> \o fields[2],
     aa34 |-> fields[1],
     predictions |-> <<>>,
     stach_predictions |-> <<>>]

ParseDomainAsClaimed ==
    call.op = "parse_domain" =>
        IF WellFormedFields(call.fields)
        THEN /\ call.res.ok
             /\ call.res.value.name = DomainOfFields(call.fields).name
             /\ call.res.value.aa34 = call.fields[1]
             /\ DOMAIN call.res.value.predictions = {}
             /\ call.res.value.stach_predictions = StachPredictionList_new
        ELSE call.res = Err("SignatureError")

IsBlank(fl) == fl.fields = <<<<>>>>

RECURSIVE NonBlank(_)
NonBlank(file) ==
    IF file = <<>> THEN <<>>
    ELSE (IF IsBlank(file[1]) THEN <<>> ELSE <<file[1]>>)
         \o NonBlank(Tail(file))

\* C19: parse_domain fails with a signature error for fewer than 2 fields or
\* a first field that is not 34 long, and otherwise gives the domain named
\* by field 1, or by field 2, "_", field 1, with empty stores;
\* parse_domains_from_reader skips the blank lines, returns the domains of
\* the other lines (each without the whitespace around it) in input order,
\* and returns the signature error when one of them is malformed.
C19_ReaderParsesTrimmedLines ==
    /\ ParseDomainAsClaimed
    /\ call.op = "parse_domains_from_reader" =>
          LET kept == NonBlank(call.file)
          IN  IF \A k \in 1..Len(kept) : WellFormedFields(kept[k].fields)
              THEN /\ call.res.ok
                   /\ Len(call.res.value) = Len(kept)
                   /\ \A k \in 1..Len(kept) :
                        /\ call.res.value[k].name =
                               DomainOfFields(kept[k].fields).name
                        /\ call.res.value[k].aa34 = kept[k].fields[1]
                        /\ DOMAIN call.res.value[k].predictions = {}
                        /\ call.res.value[k].stach_predictions =
                               StachPredictionList_new
              ELSE call.res = Err("SignatureError")

\* A file of a blank line, a padded three-field line and a two-field line,
\* read into two domains in that order.
C19_Witness ==
    /\ call.op = "parse_domains_from_reader"
    /\ Len(call.file) = 3
    /\ IsBlank(call.file[1])
    /\ call.res.ok
    /\ Len(call.res.value) = 2
    /\ call.res.value[1].name = NameC \o <<"_">> \o NameB
    /\ call.res.value[2].name = NameA

----------------------------------------------------------------------------
\* encodings/: get_value, normalise and the three encoding schemes.

\* (value - mean) / stdev
normalise(value, mean, stdev) == Frac(value - mean, stdev)

\* A lookup table is a function from its symbols to their raw values.
get_value(map, c, mean, stdev, use_mean) ==
    IF c \in DOMAIN map THEN normalise(map[c], mean, stdev)
    ELSE IF use_mean THEN Frac(mean, 1)
    ELSE normalise(0, mean, stdev)

FeatureEncoding == {"Blin", "Rausch", "Wold"}

\* The number of values the Rausch encoder gives per symbol.
RauschStride == 3

\* rausch::encode_one: one value per axis; the tables are opaque, so a value
\* is written as the axis and the symbol it was looked up for.
rausch_encode_one(c) ==
    [axis \in 1..RauschStride |-> [table |-> "rausch", axis |-> axis,
                                   symbol |-> c]]

\* rausch::legacy_encode's encode_one: the legacy table on the last axis.
rausch_legacy_encode_one(c) ==
    [axis \in 1..RauschStride |->
        [table |-> IF axis = RauschStride THEN "rausch_legacy" ELSE "rausch",
         axis |-> axis, symbol |-> c]]

\* Mutant of blin::encode_one: the Wold values only.
BlinWoldOnly(c) == wold_encode_one(c)

\* blin::encode_one: the Rausch values, then the Wold values.
blin_encode_one(c) == rausch_encode_one(c) \o wold_encode_one(c)

\* sequence.chars().map(encode_one).fold(.., append), for each scheme.
RECURSIVE EncodeParts(_, _, _)
EncodeParts(sequence, scheme, i) ==
    IF i > Len(sequence) THEN <<>>
    ELSE (CASE scheme = "Blin" -> blin_encode_one(sequence[i])
            [] scheme = "Rausch" -> rausch_encode_one(sequence[i])
            [] scheme = "RauschLegacy" -> rausch_legacy_encode_one(sequence[i]))
         \o EncodeParts(sequence, scheme, i + 1)

blin_encode(sequence) == EncodeParts(sequence, "Blin", 1)

rausch_encode(sequence) == EncodeParts(sequence, "Rausch", 1)

rausch_legacy_encode(sequence) == EncodeParts(sequence, "RauschLegacy", 1)

legacy_categories == {"LargeClusterV1", "SmallClusterV1"}

\* encodings::encode
encode(sequence, encoding, category) ==
    CASE encoding = "Blin" -> blin_encode(sequence)
      [] encoding = "Rausch" ->
            IF category \in legacy_categories
            THEN rausch_legacy_encode(sequence)
            ELSE rausch_encode(sequence)
      [] encoding = "Wold" -> wold_encode(sequence)

\* Inputs: the table, mean and standard deviation of the encoder's test and
\* a second table; sequences of up to MaxEncLen symbols, with and without
\* symbols the tables do not hold.

MaxEncLen == 4

TEST_MAP == [c \in {"A", "R", "K"} |->
                CASE c = "A" -> 0 [] c = "R" -> 4 [] c = "K" -> 2]

OtherMap == [c \in {"A", "G"} |-> IF c = "A" THEN -3 ELSE 5]

EncSymbols == {"A", "R", "K", "G", "-"}

EncSequences ==
    {Resize(q, n) : q \in {Q0, Q1}, n \in 0..MaxEncLen}
        \cup {<<"A", "-", "X">>, <<"-">>, Q0}

EncCategories == {"ThreeCluster", "LargeClusterV1"}

InitEncode ==
    /\ domains = <<>>
    /\ call = NoCall
    /\ Idle

GetValue(map, c, mean, stdev, use_mean) ==
    /\ pc = "idle"
    /\ pc' = "done"
    /\ call' = [op |-> "get_value", map |-> map, c |-> c, mean |-> mean,
                stdev |-> stdev, use_mean |-> use_mean,
                res |-> get_value(map, c, mean, stdev, use_mean)]
    /\ UNCHANGED NonCallVars

Encode(sequence, encoding, category) ==
    /\ pc = "idle"
    /\ pc' = "done"
    /\ call' = [op |-> "encode", sequence |-> sequence,
                encoding |-> encoding, category |-> category,
                res |-> encode(sequence, encoding, category)]
    /\ UNCHANGED NonCallVars

NextEncode ==
    \/ \E map \in {TEST_MAP, OtherMap}, c \in EncSymbols, mean \in {0, 2},
          stdev \in {1, 2}, use_mean \in BOOLEAN :
            GetValue(map, c, mean, stdev, use_mean)
    \/ \E sequence \in EncSequences, encoding \in FeatureEncoding,
          category \in EncCategories :
            Encode(sequence, encoding, category)

SpecEncode == InitEncode /\ [][NextEncode]_vars

\* The i-th block of width values of an encoded vector.
Block(vec, i, width) == SubSeq(vec, (i - 1) * width + 1, i * width)

C18_GetValuePolicy ==
    call.op = "get_value" =>
        IF call.c \in DOMAIN call.map
        THEN FEq(call.res, Frac(call.map[call.c] - call.mean, call.stdev))
        ELSE IF call.use_mean
        THEN FEq(call.res, Frac(0, 1))
        ELSE FEq(call.res, Frac(0 - call.mean, call.stdev))

----------------------------------------------------------------------------
\* svm/vectors.rs and svm/models.rs: reading a model file.  Numbers are
\* written with the characters "0".."9" and "-"; any other character makes
\* a token unparsable.

\* A call that does not return: the thread panics.
Panic(what) == [ok |-> FALSE, value |-> "panic", what |-> what]

DigitChars == <<"0", "1", "2", "3", "4", "5", "6", "7", "8", "9">>

IsDigit(c) == \E d \in 1..10 : DigitChars[d] = c

DigitValue(c) == (CHOOSE d \in 1..10 : DigitChars[d] = c) - 1

RECURSIVE DigitsValue(_)
DigitsValue(token) ==
    IF token = <<>> THEN 0
    ELSE 10 * DigitsValue(SubSeq(token, 1, Len(token) - 1))
            + DigitValue(token[Len(token)])

AllDigits(token) ==
    token # <<>> /\ \A i \in 1..Len(token) : IsDigit(token[i])

\* str::parse::<usize>()
ParseUsize(token) ==
    IF AllDigits(token) THEN Ok(DigitsValue(token)) ELSE Err("IntParserError")

\* str::parse::<f64>(), for whole numbers with an optional minus sign.
ParseF64(token) ==
    LET negative == token # <<>> /\ token[1] = "-"
        digits == IF negative THEN Tail(token) ELSE token
    IN  IF AllDigits(digits)
        THEN Ok(IF negative THEN 0 - DigitsValue(digits)
                ELSE DigitsValue(digits))
        ELSE Err("FloatParserError")

\* usize arithmetic wraps at 2^UsizeBits when overflow checks are off (the
\* width is scaled down from 64; the inputs stay far below it).
UsizeBits == 16

\* Mutant of the index conversion: the one-based index is kept.
KeepsIndex(a, b) == a % (2 ^ UsizeBits)

WrapSub(a, b) == (a - b) % (2 ^ UsizeBits)

\* The two builds: overflow checks on (debug) or off (release).
Builds == {"debug", "release"}

\* str::split(char::is_whitespace)
SplitWhitespace(s) ==
    LET P == {i \in 1..Len(s) : s[i] \in Whitespace}
        n == Cardinality(P)
        pos(k) == IF k = 0 THEN 0
                  ELSE IF k = n + 1 THEN Len(s) + 1
                  ELSE CHOOSE i \in P : Cardinality({j \in P : j < i}) = k - 1
    IN  [k \in 1..(n + 1) |-> SubSeq(s, pos(k - 1) + 1, pos(k) - 1)]

\* str::splitn(2, sep): the piece before the first separator and, when
\* there is a separator, everything after it.
SplitN2(s, sep) ==
    LET P == {i \in 1..Len(s) : s[i] = sep}
    IN  IF P = {} THEN <<s>>
        ELSE LET first == CHOOSE i \in P : \A j \in P : i <= j
             IN  <<SubSeq(s, 1, first - 1), SubSeq(s, first + 1, Len(s))>>

\* for token in parts[1..].iter() { .. }, from the i-th part on.
RECURSIVE FromLineTokens(_, _, _, _, _)
FromLineTokens(parts, i, values, dimension, build) ==
    IF i > Len(parts) \/ parts[i] = <<"#">> THEN Ok(values)
    ELSE LET value_parts == SplitN2(parts[i], ":")
             number == ParseUsize(value_parts[1])
             idx == WrapSub(number.value, 1)
             value == ParseF64(value_parts[2])
         IN  IF ~number.ok THEN number
             ELSE IF number.value = 0 /\ build = "debug"
             THEN Panic("attempt to subtract with overflow")
             ELSE IF dimension = 0 /\ build = "debug"
             THEN Panic("attempt to subtract with overflow")
             ELSE IF idx > WrapSub(dimension, 1)
             THEN Err("InvalidFeatureLine")
             ELSE IF Len(value_parts) < 2
             THEN Panic("index out of bounds")
             ELSE IF ~value.ok THEN value
             ELSE IF idx >= Len(values) THEN Panic("index out of bounds")
             ELSE FromLineTokens(parts, i + 1,
                                 [values EXCEPT ![idx + 1] = value.value],
                                 dimension, build)

\* SupportVector::from_line
SupportVector_from_line(line, dimension, build) ==
    LET values == [i \in 1..dimension |-> 0]
        parts == SplitWhitespace(line)
        yalpha == ParseF64(parts[1])
        filled == FromLineTokens(parts, 2, values, dimension, build)
    IN  IF Len(parts) < 2 THEN Err("InvalidFeatureLine")
        ELSE IF ~yalpha.ok THEN yalpha
        ELSE IF ~filled.ok THEN filled
        ELSE Ok(SupportVector(filled.value, yalpha.value))

\* SVMlightModel::new: the kernel is chosen by the kernel type; the other
\* kernel types are unimplemented!().
SVMlightModel_new(name, category, vectors, bias, encoding, kernel_type, gamma) ==
    IF kernel_type \in {"Linear", "RBF"}
    THEN Ok([name |-> name, category |-> category, vectors |-> vectors,
             bias |-> bias, encoding |-> encoding,
             kernel_type |-> kernel_type, gamma |-> gamma])
    ELSE Panic("not implemented")

\* str::trim_end()
TrimEnd(s) ==
    LET keep == {i \in 1..Len(s) : s[i] \notin Whitespace}
    IN  IF keep = {} THEN <<>>
        ELSE SubSeq(s, 1, CHOOSE i \in keep : \A j \in keep : j <= i)

\* The text parse_int and parse_float hand to the number parser: the line
\* without its comment and the whitespace around it.
RawValue(line) == Trim(SplitN2(TrimEnd(line), "#")[1])

\* parse_int on the i-th line of the stream.
parse_int(lines, i) ==
    IF i > Len(lines) THEN Err("InvalidFeatureLine")
    ELSE ParseUsize(RawValue(lines[i]))

\* parse_float on the i-th line of the stream.
parse_float(lines, i) ==
    IF i > Len(lines) THEN Err("InvalidFeatureLine")
    ELSE ParseF64(RawValue(lines[i]))

\* Mutant of the kernel type match: every code of the format is accepted.
KernelTypeAcceptsAll(code) ==
    CASE code = 0 -> Ok("Linear")
      [] code = 1 -> Ok("Polynomial")
      [] code = 2 -> Ok("RBF")
      [] code = 3 -> Ok("Sigmoid")
      [] OTHER -> Ok("Custom")

\* match parse_int(..)? { 0 => Linear, 2 => RBF, _ => return Err(..) }
KernelTypeOf(code) ==
    CASE code = 0 -> Ok("Linear")
      [] code = 2 -> Ok("RBF")
      [] OTHER -> Err("InvalidFeatureLine")

\* while let Some(line_res) = line_iter.next() { .. }, from the i-th line on.
RECURSIVE ReadVectors(_, _, _, _, _)
ReadVectors(lines, i, vectors, dimensions, build) ==
    IF i > Len(lines) THEN Ok(vectors)
    ELSE LET svec == SupportVector_from_line(lines[i], dimensions, build)
         IN  IF ~svec.ok THEN svec
             ELSE ReadVectors(lines, i + 1, Append(vectors, svec.value),
                              dimensions, build)

\* Mutant of the loader: a header without the line between the kernel type
\* and gamma, that is lines 2, 3, 7, 9 and 10 parsed, vectors from line 11.
FromHandleShortHeader(text, name, category, encoding, build) ==
    LET lines == Lines(text)
        kernel_code == parse_int(lines, 2)
        kernel_type == KernelTypeOf(kernel_code.value)
        gamma == parse_float(lines, 3)
        dimensions == parse_int(lines, 7)
        num_vecs == parse_int(lines, 9)
        bias == parse_float(lines, 10)
        vectors == ReadVectors(lines, 11, <<>>, dimensions.value, build)
    IN  IF ~kernel_code.ok THEN kernel_code
        ELSE IF ~kernel_type.ok THEN kernel_type
        ELSE IF ~gamma.ok THEN gamma
        ELSE IF ~dimensions.ok THEN dimensions
        ELSE IF ~num_vecs.ok THEN num_vecs
        ELSE IF ~bias.ok THEN bias
        ELSE IF ~vectors.ok THEN vectors
        ELSE SVMlightModel_new(name, category, vectors.value, bias.value,
                               encoding, kernel_type.value, gamma.value)

\* SVMlightModel::from_handle: lines 2, 4, 8, 10 and 11 of the stream are
\* parsed, lines 1, 3, 5, 6, 7 and 9 skipped, the rest are support vectors.
SVMlightModel_from_handle(text, name, category, encoding, build) ==
    LET lines == Lines(text)
        kernel_code == parse_int(lines, 2)
        kernel_type == KernelTypeOf(kernel_code.value)
        gamma == parse_float(lines, 4)
        dimensions == parse_int(lines, 8)
        num_vecs == parse_int(lines, 10)
        bias == parse_float(lines, 11)
        vectors == ReadVectors(lines, 12, <<>>, dimensions.value, build)
    IN  IF ~kernel_code.ok THEN kernel_code
        ELSE IF ~kernel_type.ok THEN kernel_type
        ELSE IF ~gamma.ok THEN gamma
        ELSE IF ~dimensions.ok THEN dimensions
        ELSE IF ~num_vecs.ok THEN num_vecs
        ELSE IF ~bias.ok THEN bias
        ELSE IF ~vectors.ok THEN vectors
        ELSE SVMlightModel_new(name, category, vectors.value, bias.value,
                               encoding, kernel_type.value, gamma.value)

\* Inputs.  Numbers are written in decimal; a support vector line is a
\* weight, idx:val pairs and a comment, or a text that is not of that form.

MaxPairs == 2
MaxVecs == 2
MaxDim == 3

RECURSIVE Render(_)
Render(n) ==
    IF n < 10 THEN <<DigitChars[n + 1]>>
    ELSE Render(n \div 10) \o <<DigitChars[(n % 10) + 1]>>

RenderInt(z) == IF z < 0 THEN <<"-">> \o Render(0 - z) ELSE Render(z)

Pair(idx, val) == [idx |-> idx, val |-> val]

RECURSIVE RenderPairs(_)
RenderPairs(pairs) ==
    IF pairs = <<>> THEN <<>>
    ELSE <<" ">> \o Render(pairs[1].idx) \o <<":">>
            \o RenderInt(pairs[1].val) \o RenderPairs(Tail(pairs))

SvLine(weight, pairs, comment) ==
    [formatted |-> TRUE, weight |-> weight, pairs |-> pairs,
     comment |-> comment,
     text |-> RenderInt(weight) \o RenderPairs(pairs) \o comment]

RawSvLine(text) ==
    [formatted |-> FALSE, weight |-> 0, pairs |-> <<>>, comment |-> <<>>,
     text |-> text]

Comments == {<<>>, <<" ", "#", " ", "j", "u", "n", "k">>, <<" ", "#">>, <<" ", "#", " ", "9", ":", "9", " ", "x">>}

\* Every index from 0 to one past the dimension with the value 5, the first
\* and the last index also with -7.
PairSet ==
    {Pair(idx, 5) : idx \in 0..(MaxDim + 1)}
    \cup {Pair(idx, -7) : idx \in {1, MaxDim}}

PairSeqs == UNION {[1..n -> PairSet] : n \in 0..MaxPairs}

SvLines ==
    {SvLine(weight, pairs, comment) :
        weight \in {10, -2}, pairs \in PairSeqs, comment \in Comments}
    \cup {RawSvLine(text) : text \in {<<>>, <<"1", "0">>, <<"x", " ", "1", ":", "5">>, <<"1", "0", " ", "2">>,
                                      <<"1", "0", " ", "1", ":", "x">>, <<"1", "0", " ", " ", "1", ":", "5">>, <<"1", "0", " ", "1", ":", "5", " ", "#", "j", "u", "n", "k">>}}

Dimensions == {0, MaxDim}

KernelLine(text, code) == [text |-> text, code |-> code]

\* The kernel type lines: the codes 0 to 4, two texts that are no usize
\* (code -1 here), and a code with a comment.
KernelLines ==
    {KernelLine(Render(k), k) : k \in 0..4}
    \cup {KernelLine(<<"x">>, -1), KernelLine(<<"-", "1">>, -1),
          KernelLine(<<"2", " ", "#", " ", "r", "b", "f">>, 2)}

FileSvLines ==
    {SvLine(10, <<Pair(1, 5), Pair(MaxDim, -7)>>, <<" ", "#", " ", "j", "u", "n", "k">>),
     SvLine(-2, <<Pair(2, 4)>>, <<>>),
     SvLine(1, <<Pair(MaxDim + 1, 1)>>, <<>>)}

ModelFile(kernel, num_vecs, sv, cut) ==
    [kernel |-> kernel, num_vecs |-> num_vecs, sv |-> sv, cut |-> cut]

\* Whole files, and files cut after their first cut lines.
ModelFiles ==
    {ModelFile(kernel, num_vecs, sv, 0) :
        kernel \in KernelLines, num_vecs \in 0..MaxVecs,
        sv \in UNION {[1..n -> FileSvLines] : n \in 0..MaxVecs}}
    \cup {ModelFile(kernel, 1, <<>>, cut) :
            kernel \in KernelLines, cut \in {1, 2, 9}}

ModelFileLines(file) ==
    LET whole == <<<<"S", "V", "M", "-", "l", "i", "g", "h", "t">>, file.kernel.text, <<"t">>, <<"1">>, <<"d">>,
                   <<"g">>, <<"s">>, Render(MaxDim) \o <<" ", "#", " ", "d", "i", "m", "s">>, <<"n">>,
                   Render(file.num_vecs), RenderInt(-5) \o <<" ", "#", " ", "b">>>>
                 \o [k \in 1..Len(file.sv) |-> file.sv[k].text]
    IN  IF file.cut = 0 THEN whole ELSE SubSeq(whole, 1, file.cut)

ModelFileText(file) == JoinWith(ModelFileLines(file), "\n") \o <<"\n">>

InitLoad ==
    /\ domains = <<>>
    /\ call = NoCall
    /\ Idle

FromLine(sv, dimension, build) ==
    /\ pc = "idle"
    /\ pc' = "done"
    /\ call' = [op |-> "from_line", sv |-> sv, dimension |-> dimension,
                build |-> build,
                res |-> SupportVector_from_line(sv.text, dimension, build)]
    /\ UNCHANGED NonCallVars

FromHandle(file, build) ==
    /\ pc = "idle"
    /\ pc' = "done"
    /\ call' = [op |-> "from_handle", file |-> file, build |-> build,
                res |-> SVMlightModel_from_handle(ModelFileText(file), "ala",
                            "ThreeCluster", "Wold", build)]
    /\ UNCHANGED NonCallVars

NextLoad ==
    \/ \E sv \in SvLines, dimension \in Dimensions, build \in Builds :
            FromLine(sv, dimension, build)
    \/ \E file \in ModelFiles, build \in Builds : FromHandle(file, build)

SpecLoad == InitLoad /\ [][NextLoad]_vars

\* The file has a kernel type line.
HasKernelLine(file) == file.cut = 0 \/ file.cut >= 2

\* C13 as stated: a kernel type line that holds anything but 0 or 2 makes
\* from_handle fail with an error of the UnsupportedKernel kind.
C13_UnsupportedKernelError ==
    (/\ call.op = "from_handle"
     /\ HasKernelLine(call.file)
     /\ call.file.kernel.code \notin {0, 2})
        => call.res = Err("UnsupportedKernel")

\* C13 amended: a kernel type line that holds a usize other than 0 or 2
\* makes from_handle fail with InvalidFeatureLine, one that holds no usize
\* with IntParserError; a loaded model has the linear kernel for code 0 and
\* the RBF kernel for code 2, and SVMlightModel::new never reaches
\* unimplemented!().
C13_KernelCodeRejected ==
    (call.op = "from_handle" /\ HasKernelLine(call.file)) =>
        LET code == call.file.kernel.code
        IN  /\ code \notin {0, 2} =>
                 call.res = Err(IF code < 0 THEN "IntParserError"
                                ELSE "InvalidFeatureLine")
            /\ call.res.ok =>
                 /\ code \in {0, 2}
                 /\ call.res.value.kernel_type =
                        (IF code = 0 THEN "Linear" ELSE "RBF")
            /\ call.res # Panic("not implemented")

\* A file with kernel type 3, rejected; its support vector lines are fine.
C13_Witness ==
    /\ call.op = "from_handle"
    /\ call.file.cut = 0
    /\ call.file.kernel.code = 3
    /\ Len(call.file.sv) = call.file.num_vecs
    /\ call.res = Err("InvalidFeatureLine")

\* C14: a loaded model holds exactly as many support vectors as the file's
\* support vector count line declares, and a file with fewer support vector
\* lines than declared is rejected with an error.
C14_VectorCountAsDeclared ==
    call.op = "from_handle" =>
        /\ call.res.ok => Len(call.res.value.vectors) = call.file.num_vecs
        /\ (call.file.cut = 0 /\ Len(call.file.sv) < call.file.num_vecs)
              => (~call.res.ok /\ call.res.value # "panic")

\* C15: from_line returns an error value, and does not panic, for every
\* line with an idx:val pair whose index is outside 1..dimension.
C15_OutOfRangeIndexIsParseError ==
    (/\ call.op = "from_line"
     /\ call.sv.formatted
     /\ \E k \in 1..Len(call.sv.pairs) :
            call.sv.pairs[k].idx \notin 1..call.dimension)
        => (~call.res.ok /\ call.res.value # "panic")

\* A line "<weight> <idx>:<val> ..[ # comment]" with at least one pair, every
\* index within 1..d and no index twice.
WellFormedSv(sv, d) ==
    /\ sv.formatted
    /\ Len(sv.pairs) >= 1
    /\ \A k \in 1..Len(sv.pairs) : sv.pairs[k].idx \in 1..d
    /\ \A j, k \in 1..Len(sv.pairs) :
          sv.pairs[j].idx = sv.pairs[k].idx => j = k

----------------------------------------------------------------------------
\* svm/models.rs: predict on models put together directly and predict_seq
\* on models the loader has read.  Values are in tenths, kernel values, the
\* bias and the score in hundredths.

\* The Wold encoding of "A", the vectors of the kernel tests ([1, 0, 1] and
\* [1, 2, 3]), a third vector, and vectors of other lengths.
FeatureVecs ==
    {wold_encode_one("A"), <<10, 0, 10>>, <<10, 20, 30>>, <<1, 2>>, <<>>}

SupportVecs ==
    {SupportVector(values, yalpha) :
        values \in {wold_encode_one("A"), <<10, 0, 10>>, <<10, 20, 30>>,
                    <<1, 2>>},
        yalpha \in {1, -2}}

DirectModels ==
    {SVMlightModel_new("m", "ThreeCluster", vectors, bias, "Wold",
                       kernel_type, 1).value :
        vectors \in UNION {[1..n -> SupportVecs] : n \in 0..MaxVecs},
        bias \in {0, 50},
        kernel_type \in {"Linear", "RBF"}}

\* Model files the loader accepts: kernel type 0 or 2 and support vector
\* lines of the declared dimension MaxDim.
LoadableFiles ==
    {ModelFile(kernel, Len(sv), sv, 0) :
        kernel \in {KernelLine(Render(0), 0), KernelLine(Render(2), 2),
                    KernelLine(<<"2", " ", "#", " ", "r", "b", "f">>, 2)},
        sv \in UNION {[1..n ->
                        {SvLine(10, <<Pair(1, 5), Pair(MaxDim, -7)>>, <<" ", "#", " ", "j", "u", "n", "k">>),
                         SvLine(-2, <<Pair(2, 4)>>, <<>>)}] :
                      n \in 0..MaxVecs}}

QuerySequences ==
    {<<>>, <<"A">>, <<"L">>, <<"-">>, <<"A", "L">>, <<"G", "K">>}

InitSvm ==
    /\ domains = <<>>
    /\ call = NoCall
    /\ Idle

Predict(model, fvec) ==
    /\ pc = "idle"
    /\ pc' = "done"
    /\ call' = [op |-> "predict", model |-> model, fvec |-> fvec,
                res |-> SVMlightModel_predict(model, fvec)]
    /\ UNCHANGED NonCallVars

\* from_handle on the file, then predict_seq on the model it gives.
LoadAndPredictSeq(file, sequence) ==
    /\ pc = "idle"
    /\ pc' = "done"
    /\ LET loaded == SVMlightModel_from_handle(ModelFileText(file), "ala",
                         "ThreeCluster", "Wold", "release")
       IN  /\ loaded.ok
           /\ call' = [op |-> "predict_seq", model |-> loaded.value,
                       fvec |-> wold_encode(sequence), file |-> file,
                       sequence |-> sequence,
                       res |-> SVMlightModel_predict_seq(loaded.value,
                                                         sequence)]
    /\ UNCHANGED NonCallVars

NextSvm ==
    \/ \E model \in DirectModels, fvec \in FeatureVecs : Predict(model, fvec)
    \/ \E file \in LoadableFiles, sequence \in QuerySequences :
            LoadAndPredictSeq(file, sequence)

SpecSvm == InitSvm /\ [][NextSvm]_vars

\* C11: when the length of the encoded query differs from the dimension the
\* model file declares, evaluating the loaded model fails with a dimension
\* mismatch, whatever the number of support vectors.
C11_WrongLengthFails ==
    (call.op = "predict_seq" /\ 3 * Len(call.sequence) # MaxDim)
        => (~call.res.ok /\ call.res.value = "DimensionMismatch")

\* The sum of the values of a function with a finite domain.
RECURSIVE SumFun(_)
SumFun(f) ==
    IF DOMAIN f = {} THEN 0
    ELSE LET x == CHOOSE x \in DOMAIN f : TRUE
         IN  f[x] + SumFun([y \in DOMAIN f \ {x} |-> f[y]])

DotProduct(a, b) == SumFun([j \in 1..Len(a) |-> a[j] * b[j]])

SquaredDistance(a, b) ==
    SumFun([j \in 1..Len(a) |-> (a[j] - b[j]) * (a[j] - b[j])])

\* The decision function of the claim, for vectors of the query's length.
DecisionSum(model, fvec) ==
    SumFun([i \in 1..Len(model.vectors) |->
              model.vectors[i].yalpha *
                 (IF model.kernel_type = "Linear"
                  THEN DotProduct(model.vectors[i].values, fvec)
                  ELSE ExpNeg(model.gamma *
                          SquaredDistance(model.vectors[i].values, fvec)))])

SameLengths(model, fvec) ==
    \A i \in 1..Len(model.vectors) :
        Len(model.vectors[i].values) = Len(fvec)

\* C12: predict returns the sum over the support vectors of yalpha times
\* kernel(support vector, query), minus the bias, the linear kernel being
\* the dot product; a linear model with the query as its single support
\* vector, weight 1 and bias 0 scores the query's squared norm.
C12_DecisionFunction ==
    (call.op \in {"predict", "predict_seq"}
        /\ SameLengths(call.model, call.fvec)) =>
        /\ call.res =
              Ok(Frac(DecisionSum(call.model, call.fvec) - call.model.bias,
                      100))
        /\ (/\ call.model.kernel_type = "Linear"
            /\ call.model.vectors = <<SupportVector(call.fvec, 1)>>
            /\ call.model.bias = 0)
              => call.res =
                    Ok(Frac(SumFun([j \in 1..Len(call.fvec) |->
                                       call.fvec[j] * call.fvec[j]]), 100))

\* The linear model whose single support vector is the encoding of "A",
\* with weight 1 and bias 0, scoring that encoding.
C12_Witness ==
    /\ call.op = "predict"
    /\ call.fvec = wold_encode_one("A")
    /\ call.model.kernel_type = "Linear"
    /\ call.model.vectors = <<SupportVector(call.fvec, 1)>>
    /\ call.model.bias = 0
    /\ call.res = Ok(Frac(82, 100))

----------------------------------------------------------------------------
\* stachelhaus.rs: predict over one query and reference collections of up to
\* MaxScan entries whose match counts against Q0 are known.

MaxScan == 4

\* A reference row that agrees with Q0 in primary of the 10 and secondary of
\* the 34 symbols.
RowWith(primary, secondary, winner) ==
    Row(Mismatch(A0, 10 - primary), Mismatch(Q0, 34 - secondary), winner)

\* Rows with the pairs (7, 24), (7, 30), (8, 24) twice, (8, 28) and (6, 34).
ScanRows ==
    {RowWith(7, 24, "Leu"), RowWith(7, 30, "Ala"), RowWith(8, 24, "Val"),
     RowWith(8, 24, "Ser"), RowWith(8, 28, "Gly"), RowWith(6, 34, "Thr")}

ScanRowSeqs == UNION {[1..n -> ScanRows] : n \in 0..MaxScan}

InitScan ==
    /\ domains = <<ADomain_new("q0", Q0)>>
    /\ call = NoCall
    /\ Idle

NextScan ==
    \/ \E rows \in ScanRowSeqs : PredictStachelhaus(rows)
    \/ StartDomain
    \/ ScanEntry
    \/ FinishDomain

SpecScan == InitScan /\ [][NextScan]_vars

\* (primary_matches, secondary_matches) of reference entry i against d.
PairOf(d, i) ==
    <<Aa10Matches(d, signatures[i]), Aa34Matches(d, signatures[i])>>

LexGreater(a, b) == a[1] > b[1] \/ (a[1] = b[1] /\ a[2] > b[2])

\* The reference entries with primary_matches >= 7.
Qualifying(d) == {i \in 1..Len(signatures) : PairOf(d, i)[1] >= 7}

\* The qualifying entries no qualifying entry is lexicographically above.
LexMaximal(d) ==
    {i \in Qualifying(d) :
        \A j \in Qualifying(d) : ~LexGreater(PairOf(d, j), PairOf(d, i))}

\* C21: after the scan every entry of the Stachelhaus category (the
\* tie-inclusive top-1 of the scan) comes from a reference entry whose pair
\* (primary_matches, secondary_matches) is lexicographically maximal among
\* the entries with primary_matches >= 7, and the category holds no entry
\* when no reference entry reaches 7.
C21_TopIsLexMaximal ==
    ScanFinished =>
        LET d == LastScanned
            cat == ADomain_get_all(d, "Stachelhaus")
        IN  /\ (Qualifying(d) = {}) = (cat = <<>>)
            /\ \A k \in 1..Len(cat) :
                 \E i \in LexMaximal(d) :
                    cat[k] = RecordedPrediction(d, signatures[i])

\* A scan step at a reference entry.
AtEntry == pc = "scan" /\ sig_idx <= Len(signatures)

\* C22: a scan step at an entry with primary_matches > best_primary sets
\* best_primary and best_secondary to the entry's counts, so that every step
\* that records a candidate leaves best_secondary at that candidate's
\* secondary_matches and every other step leaves it alone (6 at the start).
C22_BestSecondaryOfLastRecorded ==
    [][AtEntry =>
        LET d == domains[dom_idx]
            sig == signatures[sig_idx]
        IN  /\ Aa10Matches(d, sig) > max_aa10_matches =>
                 /\ max_aa10_matches' = Aa10Matches(d, sig)
                 /\ max_aa34_matches' = Aa34Matches(d, sig)
            /\ IF RecordsCandidate
               THEN max_aa34_matches' = Aa34Matches(d, sig)
               ELSE max_aa34_matches' = max_aa34_matches]_vars

\* C23: a candidate recorded by a scan step is lexicographically strictly
\* above every candidate recorded before it in this scan, and the earlier
\* candidates stay in both lists.
C23_MonotoneImprovement ==
    [][(AtEntry /\ RecordsCandidate) =>
        LET d == domains[dom_idx]
            sig == signatures[sig_idx]
            new == RecordedStachPrediction(d, sig)
        IN  /\ \A i \in 1..Len(l_stach_predictions) :
                 StachLess(l_stach_predictions[i], new)
            /\ SameBag(l_stach_predictions',
                       Append(l_stach_predictions, new))
            /\ SameBag(l_predictions',
                       Append(l_predictions, RecordedPrediction(d, sig)))]_vars

\* An entry that is not competitive records nothing and changes nothing.
NotCompetitiveFrame ==
    LET p == Aa10Matches(domains[dom_idx], signatures[sig_idx])
        s == Aa34Matches(domains[dom_idx], signatures[sig_idx])
    IN  (p < max_aa10_matches
            \/ (p = max_aa10_matches /\ s <= max_aa34_matches))
        => /\ UNCHANGED <<max_aa10_matches, max_aa34_matches, l_predictions,
                          l_stach_predictions>>
           /\ UNCHANGED domains

\* A secondary improvement at equal primary rank changes best_secondary only.
SecondaryImprovement ==
    LET p == Aa10Matches(domains[dom_idx], signatures[sig_idx])
        s == Aa34Matches(domains[dom_idx], signatures[sig_idx])
    IN  (p = max_aa10_matches /\ s > max_aa34_matches)
        => /\ max_aa10_matches' = max_aa10_matches
           /\ max_aa34_matches' = s
           /\ RecordsCandidate

\* A recorded entry has no earlier entry with the same pair.
FirstOfIdenticalOnly ==
    RecordsCandidate =>
        \A j \in 1..(sig_idx - 1) :
            PairOf(domains[dom_idx], j) # PairOf(domains[dom_idx], sig_idx)

\* The two frame statements of C24, which the code satisfies.
ScanFrame == [][AtEntry => (NotCompetitiveFrame /\ SecondaryImprovement)]_vars

\* C24: an entry that is not competitive changes nothing, a secondary
\* improvement changes best_secondary only, and of several entries with the
\* same (primary_matches, secondary_matches) only the first can be recorded.
C24_DiscardedAndFirstOfEqual ==
    [][AtEntry =>
        /\ NotCompetitiveFrame
        /\ SecondaryImprovement
        /\ FirstOfIdenticalOnly]_vars

----------------------------------------------------------------------------
\* predictions.rs: StachPredictionList::add and get_best_n on the Detail
\* list of one query record.

MaxDetail == 3

\* A Detail Candidate with primary matches of 10 and secondary/34.
Detail(name, primary, secondary) ==
    StachPrediction(name, similarity(primary, 10), <<"a">>,
                    similarity(secondary, 34), <<"b">>)

DetailCandidates ==
    {Detail("Ala", 9, 30), Detail("Leu", 9, 24), Detail("Val", 8, 30),
     Detail("Gly", 9, 30)}

InitDetail ==
    /\ domains = <<ADomain_new("bpsA_A1", Q0)>>
    /\ call = NoCall
    /\ Idle

DetailAdd(prediction) ==
    /\ ~call.res.panic
    /\ Len(domains[1].stach_predictions) < MaxDetail
    /\ domains' = [domains EXCEPT ![1].stach_predictions =
                      StachPredictionList_add(@, prediction)]
    /\ call' = [op |-> "add", category |-> "detail", arg |-> prediction,
                count |-> 0, res |-> Returned(<<>>)]
    /\ UNCHANGED <<runs, config, history, signatures, models, pc, dom_idx, sig_idx, model_idx,
                   max_aa10_matches, max_aa34_matches, l_predictions,
                   l_stach_predictions, aa10_in, aa10_out>>

DetailGetBestN(count) ==
    /\ ~call.res.panic
    /\ call' = [op |-> "get_best_n", category |-> "detail", arg |-> <<>>,
                count |-> count,
                res |-> StachPredictionList_get_best_n(
                            domains[1].stach_predictions, count)]
    /\ UNCHANGED <<runs, config, history, domains, signatures, models, pc, dom_idx, sig_idx,
                   model_idx, max_aa10_matches, max_aa34_matches,
                   l_predictions, l_stach_predictions, aa10_in, aa10_out>>

NextDetail ==
    \/ \E p \in DetailCandidates : DetailAdd(p)
    \/ \E n \in 0..MaxCount : DetailGetBestN(n)

SpecDetail == InitDetail /\ [][NextDetail]_vars

\* The Detail list is sorted descending by (primary, secondary).
DetailSorted ==
    LET list == domains[1].stach_predictions
    IN  \A i, j \in 1..Len(list) : i < j => ~StachLess(list[i], list[j])

\* C25: the Detail list is sorted descending by (primary score, secondary
\* score) after every add, and get_best_n(n), n >= 1, returns the first
\* min(n, len) entries and after them exactly the entries that are not
\* strictly below the n-th entry in that order, so that an entry with the
\* n-th entry's primary score and a lower secondary score is left out.
C25_DetailTopNByBothScores ==
    /\ DetailSorted
    /\ (call.op = "get_best_n" /\ call.count >= 1) =>
         LET list == domains[1].stach_predictions
             n == call.count
             kept == {i \in 1..Len(list) :
                        i <= n \/ ~StachLess(list[i], list[n])}
         IN  /\ ~call.res.panic
             /\ call.res.value = SubSeq(list, 1, Cardinality(kept))
             /\ \A i \in 1..Len(call.res.value) :
                  (n <= Len(list) /\ i > n) =>
                     ~FLt(call.res.value[i].aa34_score, list[n].aa34_score)

----------------------------------------------------------------------------
\* stachelhaus.rs: calculate_score on the match counts of two reference
\* entries against a query of 34 symbols.

\* if aa10.len() != 10
Aa10Len == 10

\* if parts[0].len() != 34
Aa34Len == 34

CombinedScore(pair) == calculate_score(pair[1], Aa10Len, pair[2], Aa34Len)

MatchPairs == (0..Aa10Len) \X (0..Aa34Len)

InitScore ==
    /\ domains = <<>>
    /\ call = NoCall
    /\ Idle

CalculateScores(a, b) ==
    /\ pc = "idle"
    /\ pc' = "done"
    /\ call' = [op |-> "calculate_score", a |-> a, b |-> b,
                res |-> <<CombinedScore(a), CombinedScore(b)>>]
    /\ UNCHANGED NonCallVars

\* The guard of CalculateScores is repeated in front of the quantifier, so
\* that the pairs are enumerated only where a call can be made.
NextScore == pc = "idle" /\ \E a, b \in MatchPairs : CalculateScores(a, b)

SpecScore == InitScore /\ [][NextScore]_vars

Adjacent(a, b) == a[1] = b[1] + 1 /\ a[2] = 0 /\ b[2] = Aa34Len

----------------------------------------------------------------------------
\* svm/models.rs: from_handle on files that carry a different number on
\* every header line, to tell the line positions apart.

\* A file of 11 header lines and one support vector line.  Line i holds the
\* number base + i, line 2 the kernel type code; line junk (if any) holds a
\* text that is no number; with commented set every header line ends in a
\* comment.
HeaderFile(kernel, base, junk, commented) ==
    [kernel |-> kernel, base |-> base, junk |-> junk, commented |-> commented]

HeaderValue(file, i) == IF i = 2 THEN file.kernel ELSE file.base + i

HeaderFileLines(file) ==
    [i \in 1..12 |->
        IF i = file.junk THEN <<"x">>
        ELSE IF i = 12
        THEN <<"1", " ">> \o Render(HeaderValue(file, 8)) \o <<":", "5">>
        ELSE Render(HeaderValue(file, i))
                \o (IF file.commented THEN <<" ", "#", " ", "9">> ELSE <<>>)]

HeaderFiles ==
    {HeaderFile(kernel, base, junk, commented) :
        kernel \in {0, 2}, base \in {0, 20}, junk \in 0..12,
        commented \in BOOLEAN}

InitHeader ==
    /\ domains = <<>>
    /\ call = NoCall
    /\ Idle

LoadHeaderFile(file, build) ==
    /\ pc = "idle"
    /\ pc' = "done"
    /\ call' = [op |-> "from_handle", file |-> file, build |-> build,
                res |-> SVMlightModel_from_handle(
                            JoinWith(HeaderFileLines(file), "\n") \o <<"\n">>,
                            "ala", "ThreeCluster", "Wold", build)]
    /\ UNCHANGED NonCallVars

NextHeader ==
    \E file \in HeaderFiles, build \in Builds : LoadHeaderFile(file, build)

SpecHeader == InitHeader /\ [][NextHeader]_vars

\* The loaded model has the kernel of line 2 and gamma, dimension and bias
\* of the lines g, d and b, and one support vector.
FieldsFrom(file, model, g, d, b) ==
    /\ model.kernel_type = (IF file.kernel = 0 THEN "Linear" ELSE "RBF")
    /\ model.gamma = HeaderValue(file, g)
    /\ model.bias = HeaderValue(file, b)
    /\ Len(model.vectors) >= 1
    /\ Len(model.vectors[Len(model.vectors)].values) = HeaderValue(file, d)

\* C27 as stated: gamma is read from line 3, the dimension from line 7, the
\* support vector count from line 9 and the bias from line 10; lines 1, 4 to
\* 6 and 8 are ignored and support vectors start at line 11.
C27_ClaimedLinePositions ==
    call.op = "from_handle" =>
        /\ call.res.ok = (call.file.junk \in {0, 1, 4, 5, 6, 8})
        /\ call.res.ok => FieldsFrom(call.file, call.res.value, 3, 7, 10)

\* C27 amended: line 2 holds the kernel type, line 4 gamma, line 8 the
\* dimension, line 10 the support vector count, line 11 the bias; lines 1,
\* 3, 5 to 7 and 9 are ignored, whatever they hold; support vectors start at
\* line 12; a comment after a header field is stripped.
C27_LinePositions ==
    call.op = "from_handle" =>
        LET file == call.file
        IN  /\ call.res.ok = (file.junk \in {0, 1, 3, 5, 6, 7, 9})
            /\ call.res.ok =>
                 /\ FieldsFrom(file, call.res.value, 4, 8, 11)
                 /\ Len(call.res.value.vectors) = 1
                 /\ call.res.value.vectors[1].yalpha = 1
                 /\ call.res.value.vectors[1].values[HeaderValue(file, 8)] = 5
            /\ file.junk \in {2, 8, 10} =>
                 (~call.res.ok /\ call.res.value = "IntParserError")
            /\ file.junk \in {4, 11} =>
                 (~call.res.ok /\ call.res.value = "FloatParserError")

\* A commented RBF file whose third line is no number, loaded with gamma 24,
\* dimension 28 and bias 31.
C27_Witness ==
    /\ call.op = "from_handle"
    /\ call.file = HeaderFile(2, 20, 3, TRUE)
    /\ call.res.ok
    /\ call.res.value.kernel_type = "RBF"
    /\ call.res.value.gamma = 24
    /\ call.res.value.bias = 31
    /\ Len(call.res.value.vectors[1].values) = 28

----------------------------------------------------------------------------
\* stachelhaus.rs: predict called on the same query records and the same
\* reference collection more than once.

MaxRuns == 2

RunRows ==
    {RowWith(7, 24, "Leu"), RowWith(7, 30, "Ala"), RowWith(8, 24, "Val"),
     RowWith(8, 24, "Ser"), RowWith(6, 34, "Thr")}

RunRowSeqs == UNION {[1..n -> RunRows] : n \in 0..MaxSigs}

InitRuns ==
    /\ domains \in {<<ADomain_new("q0", Q0)>>,
                    <<ADomain_new("q1", Q1), ADomain_new("q0", Q0)>>}
    /\ call = NoCall
    /\ Idle

\* predict on the query records and signatures of the finished call.
PredictAgain ==
    /\ pc = "done"
    /\ runs < MaxRuns
    /\ runs' = runs + 1
    /\ pc' = "domain"
    /\ dom_idx' = 1
    /\ UNCHANGED <<config, history, domains, call, signatures, models, sig_idx,
                   model_idx, max_aa10_matches, max_aa34_matches,
                   l_predictions, l_stach_predictions, aa10_in, aa10_out>>

NextRuns ==
    \/ \E rows \in RunRowSeqs : PredictStachelhaus(rows)
    \/ StartDomain
    \/ ScanEntry
    \/ FinishDomain
    \/ PredictAgain

SpecRuns == InitRuns /\ [][NextRuns]_vars

\* After the scan of a query record in the k-th call, the record's Detail
\* list is the scan's list and its category list holds k copies of the
\* scan's best candidates.
CategoryAccumulates ==
    ScanFinished =>
        LET d == LastScanned
            cat == ADomain_get_all(d, "Stachelhaus")
            top == PredictionList_get_best(l_predictions).value
            k == runs + 1
        IN  /\ d.stach_predictions = l_stach_predictions
            /\ Len(d.stach_predictions) = Len(l_predictions)
            /\ Len(cat) = k * Len(top)
            /\ \A i \in 1..Len(top) :
                 Occurrences(top[i], cat) = k * Occurrences(top[i], top)

\* The end of a scan in a call after the first leaves the Detail list as the
\* call before left it.
DetailReplaced ==
    (pc = "scan" /\ pc' # "scan" /\ runs >= 1) =>
        domains'[dom_idx].stach_predictions
            = domains[dom_idx].stach_predictions

\* C28: every call of the matcher replaces a record's Detail list by the
\* candidates of that call, which are those of the call before, and adds the
\* call's tie-inclusive top-1 to the record's Stachelhaus category list:
\* after k calls the Detail list is as after one and the category list holds
\* k copies of the top-1 result.
C28_DetailReplacedCategoryAccumulates ==
    []CategoryAccumulates /\ [][DetailReplaced]_vars

\* Two calls with a collection that records three candidates and has two
\* best ones: three Detail Candidates, four category entries.
C28_Witness ==
    /\ pc = "done"
    /\ runs = 1
    /\ Len(domains[1].stach_predictions) = 3
    /\ Len(PredictionList_get_best(l_predictions).value) = 2
    /\ Len(ADomain_get_all(domains[1], "Stachelhaus")) = 4

----------------------------------------------------------------------------
\* config.rs: parse_config on the values the configuration file holds and
\* the command line, and lib.rs: print_results on the resulting Config.  The
\* file is given as what toml::from_str makes of it, a ParsedConfig.

\* Option::None; the value field is a filler of the type of the option.
None(filler) == [some |-> FALSE, value |-> filler]

Some(v) == [some |-> TRUE, value |-> v]

SkipFlags ==
    {"skip_v3", "skip_v2", "skip_v1", "skip_stachelhaus",
     "skip_new_stachelhaus_output"}

\* struct ParsedConfig
ParsedConfig(model_dir, stachelhaus_signatures, count, skips) ==
    [model_dir |-> model_dir,
     stachelhaus_signatures |-> stachelhaus_signatures,
     count |-> count,
     skip_v3 |-> skips["skip_v3"],
     skip_v2 |-> skips["skip_v2"],
     skip_v1 |-> skips["skip_v1"],
     skip_stachelhaus |-> skips["skip_stachelhaus"],
     skip_new_stachelhaus_output |-> skips["skip_new_stachelhaus_output"]]

\* struct Cli, without the signature file and the config file path.
Cli(model_dir, stachelhaus_signatures, count, skips) ==
    [model_dir |-> model_dir,
     stachelhaus_signatures |-> stachelhaus_signatures,
     count |-> count,
     fungal |-> FALSE,
     skip_v3 |-> skips["skip_v3"],
     skip_v2 |-> skips["skip_v2"],
     skip_v1 |-> skips["skip_v1"],
     skip_stachelhaus |-> skips["skip_stachelhaus"],
     skip_new_stachelhaus_output |-> skips["skip_new_stachelhaus_output"]]

\* if let Some(v) = option { config.field = v }
OrKeep(option, kept) == IF option.some THEN option.value ELSE kept

\* impl From<ParsedConfig> for Config
Config_from(item) ==
    LET c0 == Config_new
        c1 == IF item.model_dir.some
              THEN Config_set_model_dir(c0, item.model_dir.value) ELSE c0
        c2 == IF item.stachelhaus_signatures.some
              THEN Config_set_stachelhaus_signatures(
                       c1, item.stachelhaus_signatures.value)
              ELSE c1
    IN  [c2 EXCEPT
            !.count = OrKeep(item.count, @),
            !.skip_v3 = OrKeep(item.skip_v3, @),
            !.skip_v2 = OrKeep(item.skip_v2, @),
            !.skip_v1 = OrKeep(item.skip_v1, @),
            !.skip_stachelhaus = OrKeep(item.skip_stachelhaus, @),
            !.skip_new_stachelhaus_output =
                OrKeep(item.skip_new_stachelhaus_output, @)]

\* Mutant of parse_config: the command line's skip flags are added to those
\* of the file instead of replacing them.
ParseConfigMergesFlags(parsed_config, args) ==
    LET c0 == Config_from(parsed_config)
        c1 == IF args.model_dir.some
              THEN [c0 EXCEPT
                      !.model_dir = args.model_dir.value,
                      !.stachelhaus_signatures =
                          set_stach_from_model_dir(args.model_dir.value)]
              ELSE c0
        c2 == IF args.stachelhaus_signatures.some
              THEN [c1 EXCEPT !.stachelhaus_signatures =
                                  args.stachelhaus_signatures.value]
              ELSE c1
        c3 == IF args.count.some
              THEN [c2 EXCEPT !.count = IF args.count.value < 1 THEN 1
                                        ELSE args.count.value]
              ELSE c2
    IN  Ok([c3 EXCEPT
                !.skip_v3 = @ \/ args.skip_v3,
                !.skip_v2 = @ \/ args.skip_v2,
                !.skip_v1 = @ \/ args.skip_v1,
                !.skip_stachelhaus = @ \/ args.skip_stachelhaus,
                !.skip_new_stachelhaus_output =
                    @ \/ args.skip_new_stachelhaus_output])

\* parse_config, from the ParsedConfig on.
parse_config(parsed_config, args) ==
    LET c0 == Config_from(parsed_config)
        c1 == IF args.model_dir.some
              THEN [c0 EXCEPT
                      !.model_dir = args.model_dir.value,
                      !.stachelhaus_signatures =
                          set_stach_from_model_dir(args.model_dir.value)]
              ELSE c0
        c2 == IF args.stachelhaus_signatures.some
              THEN [c1 EXCEPT !.stachelhaus_signatures =
                                  args.stachelhaus_signatures.value]
              ELSE c1
        c3 == IF args.count.some
              THEN [c2 EXCEPT !.count = IF args.count.value < 1 THEN 1
                                        ELSE args.count.value]
              ELSE c2
    IN  Ok([c3 EXCEPT
                !.skip_v3 = args.skip_v3,
                !.skip_v2 = args.skip_v2,
                !.skip_v1 = args.skip_v1,
                !.skip_stachelhaus = args.skip_stachelhaus,
                !.skip_new_stachelhaus_output =
                    args.skip_new_stachelhaus_output])

\* Config::categories
Config_categories(c) ==
    (IF ~c.skip_v3
     THEN <<"ThreeClusterV3", "LargeClusterV3", "SmallClusterV3", "SingleV3">>
     ELSE <<>>)
    \o (IF ~c.skip_stachelhaus THEN <<"Stachelhaus">> ELSE <<>>)
    \o (IF ~c.skip_v2
        THEN <<"ThreeClusterV2", "LargeClusterV2", "SmallClusterV2",
               "SingleV2">>
        ELSE <<>>)
    \o (IF c.fungal /\ ~c.skip_v2 THEN <<"ThreeClusterFungalV2">> ELSE <<>>)
    \o (IF ~c.skip_v1 THEN <<"LargeClusterV1", "SmallClusterV1">> ELSE <<>>)

\* print_results for no query records: the count check and the header line,
\* as the sequence of its column groups.
print_results(c) ==
    IF c.count < 1 THEN Err("CountError")
    ELSE Ok(<<"Name 8A Stachelhaus">>
            \o (IF ~c.skip_stachelhaus /\ ~c.skip_new_stachelhaus_output
                THEN <<"Full Stachelhaus match">> ELSE <<>>)
            \o Config_categories(c))

\* Inputs: the skip flags of the file (absent, true or false) and of the
\* command line, and the counts of both.
FileSkips ==
    {[f \in SkipFlags |-> None(FALSE)], [f \in SkipFlags |-> Some(TRUE)],
     [f \in SkipFlags |-> Some(FALSE)]}
    \cup {[f \in SkipFlags |-> IF f = g THEN Some(TRUE) ELSE None(FALSE)] :
            g \in SkipFlags}

FileCounts == {None(0), Some(0), Some(3)}

CliCounts == {None(0), Some(0), Some(2)}

ParsedConfigs ==
    {ParsedConfig(None(<<>>), None(<<>>), count, skips) :
        count \in FileCounts, skips \in FileSkips}
    \cup {ParsedConfig(Some(<<"/", "foo">>), None(<<>>), Some(0),
                       [f \in SkipFlags |-> Some(TRUE)])}

Clis ==
    {Cli(None(<<>>), None(<<>>), count, skips) :
        count \in CliCounts, skips \in [SkipFlags -> BOOLEAN]}
    \cup {Cli(Some(<<"/", "bar">>), Some(<<"/", "sigs.tsv">>), None(0),
              [f \in SkipFlags |-> FALSE])}

InitParseConfig ==
    /\ domains = <<>>
    /\ call = NoCall
    /\ Idle

ParseConfig(parsed_config, args) ==
    /\ pc = "idle"
    /\ pc' = "parsed"
    /\ config' = parse_config(parsed_config, args).value
    /\ call' = [op |-> "parse_config", file |-> parsed_config, args |-> args,
                res |-> Ok("config")]
    /\ UNCHANGED <<domains, signatures, models, dom_idx, sig_idx, model_idx,
                   max_aa10_matches, max_aa34_matches, l_predictions,
                   l_stach_predictions, aa10_in, aa10_out, history, runs>>

PrintResults ==
    /\ pc = "parsed"
    /\ pc' = "done"
    /\ call' = [op |-> "print_results", file |-> call.file,
                args |-> call.args, res |-> print_results(config)]
    /\ UNCHANGED <<domains, signatures, models, dom_idx, sig_idx, model_idx,
                   max_aa10_matches, max_aa34_matches, l_predictions,
                   l_stach_predictions, aa10_in, aa10_out, config, history,
                   runs>>

NextParseConfig ==
    \/ pc = "idle" /\ \E parsed_config \in ParsedConfigs, args \in Clis :
                            ParseConfig(parsed_config, args)
    \/ PrintResults

SpecParseConfig == InitParseConfig /\ [][NextParseConfig]_vars

\* C29: in the Config parse_config returns every skip flag is the command
\* line's flag, whatever the file holds; a command line count below 1
\* becomes 1, another command line count is taken as it is, and without one
\* the file's count is kept, so that a count of 0 from the file stays 0 and
\* makes print_results fail with a count error.
C29_CommandLineDecidesFlags ==
    call.op \in {"parse_config", "print_results"} =>
        LET file == call.file
            args == call.args
        IN  /\ \A f \in SkipFlags : config[f] = args[f]
            /\ args.count.some =>
                 config.count = (IF args.count.value < 1 THEN 1
                                 ELSE args.count.value)
            /\ (~args.count.some /\ file.count.some) =>
                 config.count = file.count.value
            /\ (~args.count.some /\ ~file.count.some) => config.count = 1
            /\ call.op = "print_results" =>
                 /\ (~call.res.ok) =
                        (~args.count.some /\ file.count.some
                            /\ file.count.value = 0)
                 /\ ~call.res.ok => call.res.value = "CountError"

\* A file with count 0 and every skip flag true against a command line
\* without count and flags: all flags false, count 0, print_results fails.
C29_Witness ==
    /\ call.op = "print_results"
    /\ call.file.count = Some(0)
    /\ \A f \in SkipFlags : call.file[f] = Some(TRUE)
    /\ ~call.args.count.some
    /\ \A f \in SkipFlags : ~call.args[f] /\ ~config[f]
    /\ config.count = 0
    /\ ~call.res.ok
    /\ call.res.value = "CountError"

====
